---- MODULE Spec2Model ----
(***************************************************************************)
(* Supply-chain analysis pipeline: the bottleneck detector, the three rule *)
(* agents, the decision coordinator and the sequential workflow driver of  *)
(* SupplyChainOrchestrator, modelled from src/src/*.py.                    *)
(*                                                                         *)
(* Conventions.                                                            *)
(*  - A table (DataFrame) is the sequence of its rows, in file order.      *)
(*  - A dict is a record; dict.get(k) is Get(r, k); Python None is None.   *)
(*  - A type name such as INVENTORY_SHORTAGE is the tuple of its words     *)
(*    <<"INVENTORY", "SHORTAGE">>; the substring tests of the code         *)
(*    ('INVENTORY' in b['type']) are word tests, which agree with them on  *)
(*    every type name and keyword of the program.                          *)
(*  - Time is counted in ticks; Day ticks make one day.                    *)
(*  - Fractions (x * 0.3, x * 1.5, means) are kept exact as Rat(num, den); *)
(*    threshold tests are cross-multiplied integer comparisons.            *)
(*  - A call that may raise returns Ok(value) or Raise(message), where     *)
(*    message is str(e).                                                   *)
(***************************************************************************)
EXTENDS Integers, Sequences, FiniteSets, TLC

VARIABLES
    state,                 \* the SupplyChainState threaded through the steps
    pc,                    \* run_analysis: index of the next workflow step
    history,               \* names of the step functions invoked so far
    result,                \* the dict run_analysis returned (None before)
    sink,                  \* reports written to logs/ by json.dump
    detector_bottlenecks,  \* BottleneckDetector.bottlenecks
    data_cache,            \* DataLoader.data_cache
    now,                   \* the wall clock, in ticks
    raised,                \* the exceptions raised inside steps: step and str(e)
    call                   \* a direct call of one function: input and output

vars == <<state, pc, history, result, sink, detector_bottlenecks, data_cache,
          now, raised, call>>

-----------------------------------------------------------------------------
(* Bounds of the model *)

MaxRows == 2        \* total number of rows of a loaded snapshot
MaxNow == 1         \* the clock advances at most this far during a run
MaxNodeRows == 1    \* total rows of a snapshot when steps are called directly
MaxCalls == 2       \* number of direct calls of step functions
MaxCallRows == 2    \* total rows of a snapshot given to the detector directly
MaxRecs == 3        \* recommendations given to make_decisions directly
MaxBns == 2         \* bottlenecks given to make_decisions directly
MaxBulkItems == 7   \* inventory rows of a snapshot with many shortages
MaxDemandRows == 4  \* rows of a demand history given to the spike detector
MaxAgentRows == 2   \* rows of each table given to the Demand agent directly

-----------------------------------------------------------------------------
(* Python and pandas helpers *)

None == "None"

Get(r, k) == IF k \in DOMAIN r THEN r[k] ELSE None

Contains(type, kw) == \E i \in 1..Len(type) : type[i] = kw

Ok(v) == [ok |-> TRUE, val |-> v]

Raise(msg) == [ok |-> FALSE, err |-> msg]

Rat(n, d) == [num |-> n, den |-> d]

RECURSIVE SumSeq(_)
SumSeq(s) == IF s = <<>> THEN 0 ELSE Head(s) + SumSeq(Tail(s))

RECURSIVE Flatten(_)
Flatten(ss) == IF ss = <<>> THEN <<>> ELSE Head(ss) \o Flatten(Tail(ss))

\* f"{n:03d}": the decimal digits of n, zero-padded to width 3
RECURSIVE Digits(_)
Digits(n) == IF n < 10 THEN <<n>> ELSE Digits(n \div 10) \o <<n % 10>>

Fmt03(n) ==
    LET d == Digits(n)
    IN  IF Len(d) >= 3 THEN d
        ELSE [i \in 1..(3 - Len(d)) |-> 0] \o d

\* the identifiers of the tables in lexicographic order
KeyOrder == <<"C1", "C2", "O1", "P1", "P2", "S1", "S2", "S3", "S4", "SUP1", "W1">>

\* a set of keys in ascending order (groupby and the outer merge sort their keys)
SortedSeq(S) == SelectSeq(KeyOrder, LAMBDA k : k \in S)

-----------------------------------------------------------------------------
(* The input tables *)

Day == 2

Week == 7

ProductName(p) == <<"name", p>>

Items ==
    { [product_id |-> it[1], product_name |-> ProductName(it[1]),
       current_stock |-> it[2], min_threshold |-> it[3],
       warehouse_id |-> "W1", supplier_id |-> "SUP1"] :
         it \in { <<"P1", 10, 50>>, <<"P1", 25, 50>>, <<"P1", 30, 50>>, <<"P1", 50, 50>>,
                  <<"P1", 60, 50>>, <<"P1", 5, 0>>, <<"P2", 10, 50>>,
                  <<"P2", 30, 50>> } }

Orders ==
    { [product_id |-> "P1", quantity |-> 70, order_date |-> ds[1], status |-> ds[2]] :
         ds \in { <<0, "PENDING">>, <<0, "DELIVERED">>, <<-20, "PENDING">> } }

Shipments ==
    { [shipment_id |-> es[3], order_id |-> "O1", carrier |-> es[4], cost |-> es[5],
       estimated_arrival |-> es[1], status |-> es[2]] :
         es \in { <<-10, "IN_TRANSIT", "S1", "C1", 20>>, <<-6, "IN_TRANSIT", "S2", "C2", 10>>,
                  <<-10, "DELIVERED", "S3", "C1", 30>>, <<1, "IN_TRANSIT", "S4", "C2", 40>> } }

Suppliers ==
    { [supplier_id |-> "SUP1", supplier_name |-> <<"supplier", "SUP1">>,
       reliability_score |-> r, lead_time_days |-> 5] : r \in {80, 87, 95} }

\* warehouses.csv may or may not carry a current_utilization column
WarehousesPlain ==
    { [warehouse_id |-> "W1", warehouse_name |-> <<"warehouse", "W1">>, capacity |-> c] :
         c \in {0, 10, 64, 1000} }

WarehousesWithColumn ==
    { [warehouse_id |-> "W1", warehouse_name |-> <<"warehouse", "W1">>, capacity |-> c,
       current_utilization |-> 0] : c \in {10, 64} }

\* demand histories: one row per date, dates distinct, in any file order
DemandSeries ==
    { <<>>,
      <<[product_id |-> "P1", date |-> 3, demand_quantity |-> 30],
        [product_id |-> "P1", date |-> 1, demand_quantity |-> 10],
        [product_id |-> "P1", date |-> 2, demand_quantity |-> 10]>>,
      <<[product_id |-> "P1", date |-> 1, demand_quantity |-> 30],
        [product_id |-> "P1", date |-> 2, demand_quantity |-> 10],
        [product_id |-> "P1", date |-> 3, demand_quantity |-> 10]>>,
      <<[product_id |-> "P1", date |-> 1, demand_quantity |-> 10],
        [product_id |-> "P1", date |-> 2, demand_quantity |-> 90]>> }

\* all snapshots whose five row tables hold at most n rows in total
Lengths(n) ==
    { k \in [1..5 -> 0..n] : k[1] + k[2] + k[3] + k[4] + k[5] <= n }

Snapshots(n) ==
    UNION { { [inventory |-> a, orders |-> b, shipments |-> c, suppliers |-> d,
               demand_history |-> e, warehouses |-> f] :
                 a \in [1..k[1] -> Items], b \in [1..k[2] -> Orders],
                 c \in [1..k[3] -> Shipments], d \in [1..k[4] -> Suppliers],
                 e \in DemandSeries,
                 f \in [1..k[5] -> WarehousesPlain] \cup
                       [1..k[5] -> WarehousesWithColumn] } : k \in Lengths(n) }

-----------------------------------------------------------------------------
(* BottleneckDetector *)

T_INVENTORY_SHORTAGE == <<"INVENTORY", "SHORTAGE">>
T_INSUFFICIENT_STOCK == <<"INSUFFICIENT", "STOCK", "FOR", "ORDERS">>
T_DELAYED_SHIPMENT == <<"DELAYED", "SHIPMENT">>
T_AT_RISK_SHIPMENT == <<"AT", "RISK", "SHIPMENT">>
T_WAREHOUSE_CAPACITY == <<"WAREHOUSE", "CAPACITY", "CONSTRAINT">>
T_DEMAND_SPIKE == <<"DEMAND", "SPIKE">>
T_SUPPLIER_ISSUE == <<"SUPPLIER", "RELIABILITY", "ISSUE">>

\* orders_df[status in (PENDING, PROCESSING)].groupby(product_id).quantity.sum(),
\* left-merged on the inventory rows with fillna(0)
OrderDemand(orders, p) ==
    LET pending == SelectSeq(orders, LAMBDA o :
                       o.product_id = p /\ o.status \in {"PENDING", "PROCESSING"})
    IN  SumSeq([i \in 1..Len(pending) |-> pending[i].quantity])

\* a severity rule that counts half the threshold as HIGH already
LowStockBottleneck_halfInclusive(item) ==
    [type |-> T_INVENTORY_SHORTAGE,
     severity |-> IF 2 * item.current_stock <= item.min_threshold
                  THEN "HIGH" ELSE "MEDIUM",
     product_id |-> item.product_id,
     product_name |-> item.product_name,
     current_stock |-> item.current_stock,
     min_threshold |-> item.min_threshold,
     warehouse_id |-> item.warehouse_id,
     message |-> <<"below minimum threshold", item.product_name>>,
     recommended_action |-> "REORDER_IMMEDIATELY"]

LowStockBottleneck(item) ==
    [type |-> T_INVENTORY_SHORTAGE,
     severity |-> IF 2 * item.current_stock < item.min_threshold
                  THEN "HIGH" ELSE "MEDIUM",
     product_id |-> item.product_id,
     product_name |-> item.product_name,
     current_stock |-> item.current_stock,
     min_threshold |-> item.min_threshold,
     warehouse_id |-> item.warehouse_id,
     message |-> <<"below minimum threshold", item.product_name>>,
     recommended_action |-> "REORDER_IMMEDIATELY"]

InsufficientBottleneck(item, quantity) ==
    [type |-> T_INSUFFICIENT_STOCK,
     severity |-> "HIGH",
     product_id |-> item.product_id,
     product_name |-> item.product_name,
     current_stock |-> item.current_stock,
     required_quantity |-> quantity,
     shortage |-> quantity - item.current_stock,
     warehouse_id |-> item.warehouse_id,
     message |-> <<"insufficient stock for pending orders", item.product_name>>,
     recommended_action |-> "EXPEDITE_REORDER"]

\* a threshold test that exempts the items standing exactly at their threshold
detect_inventory_shortages_strict(inventory, orders) ==
    LET low_stock == SelectSeq(inventory, LAMBDA it :
                         it.current_stock < it.min_threshold)
        insufficient == SelectSeq(inventory, LAMBDA it :
                         it.current_stock < OrderDemand(orders, it.product_id))
    IN  [i \in 1..Len(low_stock) |-> LowStockBottleneck(low_stock[i])]
        \o [i \in 1..Len(insufficient) |->
              InsufficientBottleneck(insufficient[i],
                  OrderDemand(orders, insufficient[i].product_id))]

detect_inventory_shortages(inventory, orders) ==
    LET low_stock == SelectSeq(inventory, LAMBDA it :
                         it.current_stock <= it.min_threshold)
        insufficient == SelectSeq(inventory, LAMBDA it :
                         it.current_stock < OrderDemand(orders, it.product_id))
    IN  [i \in 1..Len(low_stock) |-> LowStockBottleneck(low_stock[i])]
        \o [i \in 1..Len(insufficient) |->
              InsufficientBottleneck(insufficient[i],
                  OrderDemand(orders, insufficient[i].product_id))]

\* timedelta.days of a non-negative difference
DaysOverdue(current_date, eta) == (current_date - eta) \div Day

IsOverdue(shipment, current_date) ==
    shipment.estimated_arrival < current_date /\ shipment.status # "DELIVERED"

\* a severity rule that counts 3 whole days overdue as HIGH already
DelayedBottleneck_fromThreeDays(shipment, current_date) ==
    LET days_overdue == DaysOverdue(current_date, shipment.estimated_arrival)
    IN  [type |-> T_DELAYED_SHIPMENT,
         severity |-> IF days_overdue >= 3 THEN "HIGH" ELSE "MEDIUM",
         shipment_id |-> shipment.shipment_id,
         order_id |-> shipment.order_id,
         carrier |-> shipment.carrier,
         days_overdue |-> days_overdue,
         estimated_arrival |-> shipment.estimated_arrival,
         status |-> shipment.status,
         message |-> <<"shipment is days overdue", shipment.shipment_id, days_overdue>>,
         recommended_action |-> "CONTACT_CARRIER"]

DelayedBottleneck(shipment, current_date) ==
    LET days_overdue == DaysOverdue(current_date, shipment.estimated_arrival)
    IN  [type |-> T_DELAYED_SHIPMENT,
         severity |-> IF days_overdue > 3 THEN "HIGH" ELSE "MEDIUM",
         shipment_id |-> shipment.shipment_id,
         order_id |-> shipment.order_id,
         carrier |-> shipment.carrier,
         days_overdue |-> days_overdue,
         estimated_arrival |-> shipment.estimated_arrival,
         status |-> shipment.status,
         message |-> <<"shipment is days overdue", shipment.shipment_id, days_overdue>>,
         recommended_action |-> "CONTACT_CARRIER"]

AtRiskBottleneck(shipment) ==
    [type |-> T_AT_RISK_SHIPMENT,
     severity |-> "MEDIUM",
     shipment_id |-> shipment.shipment_id,
     order_id |-> shipment.order_id,
     carrier |-> shipment.carrier,
     estimated_arrival |-> shipment.estimated_arrival,
     status |-> shipment.status,
     message |-> <<"shipment may be at risk of delay", shipment.shipment_id>>,
     recommended_action |-> "MONITOR_CLOSELY"]

detect_delayed_shipments(shipments, current_date) ==
    LET overdue == SelectSeq(shipments, LAMBDA s : IsOverdue(s, current_date))
        at_risk == SelectSeq(shipments, LAMBDA s :
                       /\ s.estimated_arrival <= current_date + Day
                       /\ s.estimated_arrival >= current_date
                       /\ s.status = "IN_TRANSIT")
    IN  [i \in 1..Len(overdue) |-> DelayedBottleneck(overdue[i], current_date)]
        \o [i \in 1..Len(at_risk) |-> AtRiskBottleneck(at_risk[i])]

\* inventory_df.groupby(warehouse_id).current_stock.sum(), left-merged, fillna(0)
WarehouseStock(inventory, w) ==
    LET rows == SelectSeq(inventory, LAMBDA it : it.warehouse_id = w)
    IN  SumSeq([i \in 1..Len(rows) |-> rows[i].current_stock])

\* utilization_rate = current_stock / capacity > tenths/100 as the float division
\* of two columns decides it: x / 0 is inf for x > 0 and nan for x = 0
UtilizationAbove(stock, capacity, percent) ==
    IF capacity = 0 THEN stock > 0
    ELSE 100 * stock > percent * capacity

CapacityBottleneck(warehouse, stock) ==
    [type |-> T_WAREHOUSE_CAPACITY,
     severity |-> IF UtilizationAbove(stock, warehouse.capacity, 95)
                  THEN "HIGH" ELSE "MEDIUM",
     warehouse_id |-> warehouse.warehouse_id,
     warehouse_name |-> warehouse.warehouse_name,
     utilization_rate |-> Rat(stock, warehouse.capacity),
     capacity |-> warehouse.capacity,
     current_utilization |-> warehouse.current_utilization,
     message |-> <<"warehouse is at capacity", warehouse.warehouse_name,
                   Rat(stock, warehouse.capacity)>>,
     recommended_action |-> "REDISTRIBUTE_INVENTORY"]

\* warehouse['current_utilization'] raises KeyError when the table has no such
\* column; the first flagged row then ends the detector
detect_capacity_constraints(warehouses, inventory) ==
    LET high_utilization == SelectSeq(warehouses, LAMBDA w :
            UtilizationAbove(WarehouseStock(inventory, w.warehouse_id), w.capacity, 90))
    IN  IF \E i \in 1..Len(high_utilization) :
               "current_utilization" \notin DOMAIN high_utilization[i]
        THEN Raise("'current_utilization'")
        ELSE Ok([i \in 1..Len(high_utilization) |->
                   CapacityBottleneck(high_utilization[i],
                       WarehouseStock(inventory, high_utilization[i].warehouse_id))])

\* the product ids of a table in order of first appearance (Series.unique)
RECURSIVE UniqueProducts(_)
UniqueProducts(rows) ==
    IF rows = <<>> THEN <<>>
    ELSE LET rest == UniqueProducts(SelectSeq(Tail(rows), LAMBDA r :
                         r.product_id # Head(rows).product_id))
         IN  <<Head(rows).product_id>> \o rest

\* the rows of one product sorted by date (dates are distinct)
RECURSIVE SortByDate(_)
SortByDate(rows) ==
    IF rows = <<>> THEN <<>>
    ELSE LET i == CHOOSE j \in 1..Len(rows) :
                     \A k \in 1..Len(rows) : rows[j].date <= rows[k].date
         IN  <<rows[i]>> \o SortByDate(SubSeq(rows, 1, i - 1) \o
                                       SubSeq(rows, i + 1, Len(rows)))

\* a moving average over the two observations before the last one
MovingAvgLast_beforeLast(product_data) ==
    LET n == Len(product_data)
        win == SubSeq(product_data, IF n >= 3 THEN n - 2 ELSE 1, n - 1)
    IN  Rat(SumSeq([i \in 1..Len(win) |-> win[i].demand_quantity]),
            IF win = <<>> THEN 1 ELSE Len(win))

\* rolling(window=3, min_periods=1).mean() at the last row, as sum and count
MovingAvgLast(product_data) ==
    LET n == Len(product_data)
        first == IF n >= 3 THEN n - 2 ELSE 1
        win == SubSeq(product_data, first, n)
    IN  Rat(SumSeq([i \in 1..Len(win) |-> win[i].demand_quantity]), Len(win))

\* demand_quantity > moving_avg * 1.5
IsSpike(quantity, avg) == 2 * quantity * avg.den > 3 * avg.num

SpikeBottleneck(product_id, recent, avg) ==
    [type |-> T_DEMAND_SPIKE,
     severity |-> "MEDIUM",
     product_id |-> product_id,
     current_demand |-> recent.demand_quantity,
     average_demand |-> avg,
     spike_ratio |-> Rat(recent.demand_quantity * avg.den, avg.num),
     date |-> recent.date,
     message |-> <<"demand spike detected for product", product_id>>,
     recommended_action |-> "INCREASE_INVENTORY"]

\* a detector without the "fewer than 3 rows" exemption
detect_demand_spikes_noMinimum(demand_history) ==
    LET products == UniqueProducts(demand_history)
        SpikesOf(p) ==
            LET product_data == SortByDate(SelectSeq(demand_history,
                                    LAMBDA r : r.product_id = p))
                recent == product_data[Len(product_data)]
                avg == MovingAvgLast(product_data)
            IN  IF IsSpike(recent.demand_quantity, avg)
                THEN <<SpikeBottleneck(p, recent, avg)>>
                ELSE <<>>
    IN  Flatten([i \in 1..Len(products) |-> SpikesOf(products[i])])

detect_demand_spikes(demand_history) ==
    LET products == UniqueProducts(demand_history)
        SpikesOf(p) ==
            LET product_data == SortByDate(SelectSeq(demand_history,
                                    LAMBDA r : r.product_id = p))
                recent == product_data[Len(product_data)]
                avg == MovingAvgLast(product_data)
            IN  IF Len(product_data) < 3 THEN <<>>
                ELSE IF IsSpike(recent.demand_quantity, avg)
                     THEN <<SpikeBottleneck(p, recent, avg)>>
                     ELSE <<>>
    IN  Flatten([i \in 1..Len(products) |-> SpikesOf(products[i])])

SupplierBottleneck(supplier, inventory) ==
    [type |-> T_SUPPLIER_ISSUE,
     severity |-> IF supplier.reliability_score < 85 THEN "HIGH" ELSE "MEDIUM",
     supplier_id |-> supplier.supplier_id,
     supplier_name |-> supplier.supplier_name,
     reliability_score |-> supplier.reliability_score,
     lead_time_days |-> supplier.lead_time_days,
     affected_products |-> Len(SelectSeq(inventory, LAMBDA it :
                               it.supplier_id = supplier.supplier_id)),
     message |-> <<"supplier has low reliability score", supplier.supplier_name>>,
     recommended_action |-> "FIND_ALTERNATIVE_SUPPLIER"]

detect_supplier_issues(suppliers, inventory) ==
    LET unreliable == SelectSeq(suppliers, LAMBDA s : s.reliability_score < 90)
    IN  [i \in 1..Len(unreliable) |-> SupplierBottleneck(unreliable[i], inventory)]

BnId(i) == <<"BN">> \o Fmt03(i)

\* the delayed-shipment results extended ahead of the inventory ones
Concatenated_delaysFirst(shortages, delays, constraints, spikes, issues) ==
    delays \o shortages \o constraints \o spikes \o issues

\* the five detector results in the order run_full_analysis extends the list
Concatenated(shortages, delays, constraints, spikes, issues) ==
    shortages \o delays \o constraints \o spikes \o issues

\* bottleneck['id'] = f"BN_{i+1:03d}" over enumerate(all_bottlenecks)
AssignIds(all_bottlenecks, current_date) ==
    [i \in 1..Len(all_bottlenecks) |->
        [id |-> BnId(i), detected_at |-> current_date] @@ all_bottlenecks[i]]

run_full_analysis(data, current_date) ==
    LET shortages == detect_inventory_shortages(data.inventory, data.orders)
        delays == detect_delayed_shipments(data.shipments, current_date)
        constraints == detect_capacity_constraints(data.warehouses, data.inventory)
        spikes == detect_demand_spikes(data.demand_history)
        issues == detect_supplier_issues(data.suppliers, data.inventory)
    IN  IF ~constraints.ok THEN constraints
        ELSE Ok(AssignIds(Concatenated(shortages, delays, constraints.val,
                                       spikes, issues), current_date))

-----------------------------------------------------------------------------
(* The rule agents *)

R_INCREASE_FOR_SPIKE == <<"INCREASE", "INVENTORY", "FOR", "DEMAND", "SPIKE">>
R_REDUCE_FOR_LOW == <<"REDUCE", "INVENTORY", "FOR", "LOW", "DEMAND">>
R_ADDRESS_DEMAND == <<"ADDRESS", "DEMAND", "BOTTLENECK">>
R_EMERGENCY_REORDER == <<"EMERGENCY", "REORDER">>
R_STANDARD_REORDER == <<"STANDARD", "REORDER">>
R_RESOLVE_INVENTORY == <<"RESOLVE", "INVENTORY", "BOTTLENECK">>
R_EXPEDITE_SHIPMENT == <<"EXPEDITE", "DELAYED", "SHIPMENT">>
R_OPTIMIZE_CARRIER == <<"OPTIMIZE", "CARRIER", "SELECTION">>
R_RESOLVE_LOGISTICS == <<"RESOLVE", "LOGISTICS", "BOTTLENECK">>

\* orders of the last 7 days, summed per product (0 when the product has none)
RecentDemand(orders, p, current_date) ==
    LET recent == SelectSeq(orders, LAMBDA o :
                      o.product_id = p /\ o.order_date >= current_date - Week * Day)
    IN  SumSeq([i \in 1..Len(recent) |-> recent[i].quantity])

\* demand_df.groupby(product_id).demand_quantity.mean(), 0 when the product has none
HistoricalAvg(demand_history, p) ==
    LET rows == SelectSeq(demand_history, LAMBDA r : r.product_id = p)
    IN  IF rows = <<>> THEN Rat(0, 1)
        ELSE Rat(SumSeq([i \in 1..Len(rows) |-> rows[i].demand_quantity]), Len(rows))

\* variance_ratio = quantity / (demand_quantity + 1) against 1.5 and 0.5
\* a spike test that takes in the ratio 1.5 itself
RatioAbove15_inclusive(quantity, avg) == 2 * quantity * avg.den >= 3 * (avg.num + avg.den)

RatioAbove15(quantity, avg) == 2 * quantity * avg.den > 3 * (avg.num + avg.den)

RatioBelow05(quantity, avg) == 2 * quantity * avg.den < avg.num + avg.den

DemandRecs(p, quantity, avg) ==
    IF RatioAbove15(quantity, avg)
    THEN << [type |-> R_INCREASE_FOR_SPIKE,
             product_id |-> p,
             current_demand |-> quantity,
             historical_avg |-> avg,
             recommended_increase |-> Rat(3 * quantity, 10),
             agent |-> "DemandMonitor",
             priority |-> "HIGH",
             message |-> <<"demand spike detected for product", p>>] >>
    ELSE IF RatioBelow05(quantity, avg)
    THEN << [type |-> R_REDUCE_FOR_LOW,
             product_id |-> p,
             current_demand |-> quantity,
             historical_avg |-> avg,
             agent |-> "DemandMonitor",
             priority |-> "MEDIUM",
             message |-> <<"low demand detected for product", p>>] >>
    ELSE <<>>

AddressDemandRec(bottleneck) ==
    [type |-> R_ADDRESS_DEMAND,
     bottleneck_id |-> Get(bottleneck, "id"),
     product_id |-> Get(bottleneck, "product_id"),
     agent |-> "DemandMonitor",
     priority |-> "HIGH",
     action |-> "FORECAST_ADJUSTMENT",
     message |-> <<"address demand bottleneck", bottleneck.message>>]

analyze_demand(data, bottlenecks, current_date) ==
    LET recent_products ==
            { data.orders[i].product_id : i \in
                { j \in 1..Len(data.orders) :
                    data.orders[j].order_date >= current_date - Week * Day } }
        history_products ==
            { data.demand_history[i].product_id : i \in 1..Len(data.demand_history) }
        \* the outer merge yields the union of the keys, sorted
        products == SortedSeq(recent_products \cup history_products)
        demand_bottlenecks == SelectSeq(bottlenecks, LAMBDA b :
                                  Contains(b.type, "DEMAND"))
    IN  Flatten([i \in 1..Len(products) |->
                    DemandRecs(products[i],
                               RecentDemand(data.orders, products[i], current_date),
                               HistoricalAvg(data.demand_history, products[i]))])
        \o [i \in 1..Len(demand_bottlenecks) |->
               AddressDemandRec(demand_bottlenecks[i])]

\* an emergency rule that takes in the items at exactly half their threshold
InventoryRecs_halfInclusive(item) ==
    IF 2 * item.current_stock <= item.min_threshold
    THEN << [type |-> R_EMERGENCY_REORDER,
             product_id |-> item.product_id,
             product_name |-> item.product_name,
             current_stock |-> item.current_stock,
             min_threshold |-> item.min_threshold,
             recommended_quantity |-> item.min_threshold * 2,
             warehouse_id |-> item.warehouse_id,
             supplier_id |-> item.supplier_id,
             agent |-> "InventoryManager",
             priority |-> "HIGH",
             message |-> <<"emergency reorder needed", item.product_name>>] >>
    ELSE IF item.current_stock < item.min_threshold
    THEN << [type |-> R_STANDARD_REORDER,
             product_id |-> item.product_id,
             product_name |-> item.product_name,
             current_stock |-> item.current_stock,
             min_threshold |-> item.min_threshold,
             recommended_quantity |-> Rat(3 * item.min_threshold, 2),
             warehouse_id |-> item.warehouse_id,
             supplier_id |-> item.supplier_id,
             agent |-> "InventoryManager",
             priority |-> "MEDIUM",
             message |-> <<"standard reorder recommended", item.product_name>>] >>
    ELSE <<>>

InventoryRecs(item) ==
    IF 2 * item.current_stock < item.min_threshold
    THEN << [type |-> R_EMERGENCY_REORDER,
             product_id |-> item.product_id,
             product_name |-> item.product_name,
             current_stock |-> item.current_stock,
             min_threshold |-> item.min_threshold,
             recommended_quantity |-> item.min_threshold * 2,
             warehouse_id |-> item.warehouse_id,
             supplier_id |-> item.supplier_id,
             agent |-> "InventoryManager",
             priority |-> "HIGH",
             message |-> <<"emergency reorder needed", item.product_name>>] >>
    ELSE IF item.current_stock < item.min_threshold
    THEN << [type |-> R_STANDARD_REORDER,
             product_id |-> item.product_id,
             product_name |-> item.product_name,
             current_stock |-> item.current_stock,
             min_threshold |-> item.min_threshold,
             recommended_quantity |-> Rat(3 * item.min_threshold, 2),
             warehouse_id |-> item.warehouse_id,
             supplier_id |-> item.supplier_id,
             agent |-> "InventoryManager",
             priority |-> "MEDIUM",
             message |-> <<"standard reorder recommended", item.product_name>>] >>
    ELSE <<>>

ResolveInventoryRec(bottleneck) ==
    [type |-> R_RESOLVE_INVENTORY,
     bottleneck_id |-> Get(bottleneck, "id"),
     product_id |-> Get(bottleneck, "product_id"),
     warehouse_id |-> Get(bottleneck, "warehouse_id"),
     agent |-> "InventoryManager",
     priority |-> "HIGH",
     action |-> IF "recommended_action" \in DOMAIN bottleneck
                THEN bottleneck.recommended_action ELSE "REORDER",
     message |-> <<"resolve inventory bottleneck", bottleneck.message>>]

\* an agent that answers every bottleneck, whatever its type
optimize_inventory_anyBottleneck(data, bottlenecks) ==
    LET inventory == data.inventory
        inventory_bottlenecks == bottlenecks
    IN  IF \E i \in 1..Len(inventory) : inventory[i].min_threshold = 0
        THEN Raise("division by zero")
        ELSE Ok(Flatten([i \in 1..Len(inventory) |-> InventoryRecs(inventory[i])])
                \o [i \in 1..Len(inventory_bottlenecks) |->
                       ResolveInventoryRec(inventory_bottlenecks[i])])

\* an agent that also answers the bottlenecks whose type mentions STOCK
optimize_inventory_stockToo(data, bottlenecks) ==
    LET inventory == data.inventory
        inventory_bottlenecks == SelectSeq(bottlenecks, LAMBDA b :
            Contains(b.type, "INVENTORY") \/ Contains(b.type, "STOCK"))
    IN  IF \E i \in 1..Len(inventory) : inventory[i].min_threshold = 0
        THEN Raise("division by zero")
        ELSE Ok(Flatten([i \in 1..Len(inventory) |-> InventoryRecs(inventory[i])])
                \o [i \in 1..Len(inventory_bottlenecks) |->
                       ResolveInventoryRec(inventory_bottlenecks[i])])

\* item['current_stock'] / item['min_threshold'] divides two Python numbers of
\* a row of mixed columns: a zero threshold raises ZeroDivisionError
optimize_inventory(data, bottlenecks) ==
    LET inventory == data.inventory
        inventory_bottlenecks == SelectSeq(bottlenecks, LAMBDA b :
                                     Contains(b.type, "INVENTORY"))
    IN  IF \E i \in 1..Len(inventory) : inventory[i].min_threshold = 0
        THEN Raise("division by zero")
        ELSE Ok(Flatten([i \in 1..Len(inventory) |-> InventoryRecs(inventory[i])])
                \o [i \in 1..Len(inventory_bottlenecks) |->
                       ResolveInventoryRec(inventory_bottlenecks[i])])

ExpediteRec(shipment) ==
    [type |-> R_EXPEDITE_SHIPMENT,
     shipment_id |-> shipment.shipment_id,
     order_id |-> shipment.order_id,
     carrier |-> shipment.carrier,
     estimated_arrival |-> shipment.estimated_arrival,
     agent |-> "LogisticsOptimizer",
     priority |-> "HIGH",
     action |-> "CONTACT_CARRIER",
     message |-> <<"expedite delayed shipment", shipment.shipment_id>>]

\* shipments_df.groupby(carrier).cost.mean(), as sum and count
CarrierAvgCost(shipments, c) ==
    LET rows == SelectSeq(shipments, LAMBDA s : s.carrier = c)
    IN  Rat(SumSeq([i \in 1..Len(rows) |-> rows[i].cost]), Len(rows))

RatLeq(a, b) == a.num * b.den <= b.num * a.den

RatLess(a, b) == a.num * b.den < b.num * a.den

\* avg_cost.idxmin() over the carriers in sorted order: the first minimum
CheapestCarrier(shipments, carriers) ==
    LET k == CHOOSE i \in 1..Len(carriers) :
                /\ \A j \in 1..Len(carriers) :
                       RatLeq(CarrierAvgCost(shipments, carriers[i]),
                              CarrierAvgCost(shipments, carriers[j]))
                /\ \A j \in 1..(i - 1) :
                       RatLess(CarrierAvgCost(shipments, carriers[i]),
                               CarrierAvgCost(shipments, carriers[j]))
    IN  carriers[k]

CarrierRecs(shipments) ==
    LET carriers == SortedSeq({shipments[i].carrier : i \in 1..Len(shipments)})
        cheapest == CheapestCarrier(shipments, carriers)
    IN  IF Len(carriers) > 1
        THEN << [type |-> R_OPTIMIZE_CARRIER,
                 recommended_carrier |-> cheapest,
                 avg_cost |-> CarrierAvgCost(shipments, cheapest),
                 agent |-> "LogisticsOptimizer",
                 priority |-> "MEDIUM",
                 message |-> <<"consider using carrier", cheapest>>] >>
        ELSE <<>>

ResolveLogisticsRec(bottleneck) ==
    [type |-> R_RESOLVE_LOGISTICS,
     bottleneck_id |-> Get(bottleneck, "id"),
     shipment_id |-> Get(bottleneck, "shipment_id"),
     carrier |-> Get(bottleneck, "carrier"),
     agent |-> "LogisticsOptimizer",
     priority |-> "HIGH",
     action |-> IF "recommended_action" \in DOMAIN bottleneck
                THEN bottleneck.recommended_action ELSE "INVESTIGATE",
     message |-> <<"resolve logistics bottleneck", bottleneck.message>>]

\* an agent that leaves out the follow-up of a shipment it already expedites
optimize_logistics_noRepeat(data, bottlenecks, current_date) ==
    LET delayed_shipments == SelectSeq(data.shipments, LAMBDA s :
                                 IsOverdue(s, current_date))
        logistics_bottlenecks == SelectSeq(bottlenecks, LAMBDA b :
            /\ Contains(b.type, "SHIPMENT") \/ Contains(b.type, "DELAYED")
            /\ ~\E i \in 1..Len(delayed_shipments) :
                   delayed_shipments[i].shipment_id = Get(b, "shipment_id"))
    IN  [i \in 1..Len(delayed_shipments) |-> ExpediteRec(delayed_shipments[i])]
        \o CarrierRecs(data.shipments)
        \o [i \in 1..Len(logistics_bottlenecks) |->
               ResolveLogisticsRec(logistics_bottlenecks[i])]

optimize_logistics(data, bottlenecks, current_date) ==
    LET delayed_shipments == SelectSeq(data.shipments, LAMBDA s :
                                 IsOverdue(s, current_date))
        logistics_bottlenecks == SelectSeq(bottlenecks, LAMBDA b :
            Contains(b.type, "SHIPMENT") \/ Contains(b.type, "DELAYED"))
    IN  [i \in 1..Len(delayed_shipments) |-> ExpediteRec(delayed_shipments[i])]
        \o CarrierRecs(data.shipments)
        \o [i \in 1..Len(logistics_bottlenecks) |->
               ResolveLogisticsRec(logistics_bottlenecks[i])]

-----------------------------------------------------------------------------
(* OrchestratorAgent.make_decisions *)

\* the truth value of a product id in "if product_id:"
Truthy(v) == v # None /\ v # ""

DecId(n) == <<"DEC">> \o Fmt03(n)

\* a counter of the approved decisions only
NextDecisionId_approvedOnly(final_decisions) ==
    DecId(Len(SelectSeq(final_decisions, LAMBDA d : d.status = "APPROVED")) + 1)

\* f"DEC_{len(final_decisions)+1:03d}"
NextDecisionId(final_decisions) == DecId(Len(final_decisions) + 1)

\* the keys of decision_groups in insertion order
RECURSIVE GroupTypes(_)
GroupTypes(recs) ==
    IF recs = <<>> THEN <<>>
    ELSE <<Head(recs).type>> \o
         GroupTypes(SelectSeq(Tail(recs), LAMBDA r : r.type # Head(recs).type))

\* whether the rec already stored for a product gives way to a later one
Replaces(rec, existing) ==
    Get(rec, "priority") = "HIGH" /\ Get(existing, "priority") # "HIGH"

\* the products dict of one group, as its values in insertion order
RECURSIVE Consolidate(_, _)
Consolidate(products, recs) ==
    IF recs = <<>> THEN products
    ELSE LET rec == Head(recs)
             product_id == Get(rec, "product_id")
             known == {i \in 1..Len(products) : products[i].product_id = product_id}
         IN  IF ~Truthy(product_id) THEN Consolidate(products, Tail(recs))
             ELSE IF known = {} THEN Consolidate(Append(products, rec), Tail(recs))
             ELSE LET i == CHOOSE j \in known : TRUE
                  IN  IF Replaces(rec, products[i])
                      THEN Consolidate([products EXCEPT ![i] = rec], Tail(recs))
                      ELSE Consolidate(products, Tail(recs))

InventoryDecision(decision, current_date) ==
    [type |-> "INVENTORY_ACTION",
     action |-> decision.type,
     product_id |-> decision.product_id,
     priority |-> decision.priority,
     details |-> decision,
     coordinating_agent |-> "Orchestrator",
     timestamp |-> current_date,
     status |-> "APPROVED"]

LogisticsDecision(rec, current_date) ==
    [type |-> "LOGISTICS_ACTION",
     action |-> rec.type,
     shipment_id |-> Get(rec, "shipment_id"),
     carrier |-> Get(rec, "carrier"),
     priority |-> rec.priority,
     details |-> rec,
     coordinating_agent |-> "Orchestrator",
     timestamp |-> current_date,
     status |-> "APPROVED"]

GeneralDecision(rec, current_date) ==
    [type |-> "GENERAL_ACTION",
     action |-> rec.type,
     priority |-> rec.priority,
     details |-> rec,
     coordinating_agent |-> "Orchestrator",
     timestamp |-> current_date,
     status |-> "APPROVED"]

CriticalDecision(bottleneck, current_date) ==
    [type |-> "CRITICAL_BOTTLENECK_RESOLUTION",
     action |-> IF "recommended_action" \in DOMAIN bottleneck
                THEN bottleneck.recommended_action ELSE "INVESTIGATE",
     bottleneck_id |-> Get(bottleneck, "id"),
     priority |-> "CRITICAL",
     details |-> bottleneck,
     coordinating_agent |-> "Orchestrator",
     timestamp |-> current_date,
     status |-> "URGENT"]

\* which branch of the coordinator a group of recommendations takes
GroupKind(decision_type) ==
    IF Contains(decision_type, "REORDER") \/ Contains(decision_type, "INVENTORY")
    THEN "inventory"
    ELSE IF Contains(decision_type, "LOGISTICS") \/ Contains(decision_type, "SHIPMENT")
    THEN "logistics"
    ELSE "general"

\* a coordinator that answers each logistics group with a single decision
GroupDecisions_onePerLogisticsGroup(decision_type, recs, current_date) ==
    IF GroupKind(decision_type) = "inventory"
    THEN LET products == Consolidate(<<>>, recs)
         IN  [i \in 1..Len(products) |-> InventoryDecision(products[i], current_date)]
    ELSE IF GroupKind(decision_type) = "logistics"
    THEN [i \in 1..1 |-> LogisticsDecision(recs[i], current_date)]
    ELSE [i \in 1..Len(recs) |-> GeneralDecision(recs[i], current_date)]

\* the decisions of one group, before their ids are assigned
GroupDecisions(decision_type, recs, current_date) ==
    IF GroupKind(decision_type) = "inventory"
    THEN LET products == Consolidate(<<>>, recs)
         IN  [i \in 1..Len(products) |-> InventoryDecision(products[i], current_date)]
    ELSE IF GroupKind(decision_type) = "logistics"
    THEN [i \in 1..Len(recs) |-> LogisticsDecision(recs[i], current_date)]
    ELSE [i \in 1..Len(recs) |-> GeneralDecision(recs[i], current_date)]

\* final_decisions.append({'decision_id': ..., ...}) for each new decision
RECURSIVE AppendDecisions(_, _)
AppendDecisions(final_decisions, new) ==
    IF new = <<>> THEN final_decisions
    ELSE AppendDecisions(
             Append(final_decisions,
                    [decision_id |-> NextDecisionId(final_decisions)] @@ Head(new)),
             Tail(new))

\* the MEDIUM recommendations ahead of the HIGH ones
Prioritized_mediumFirst(recommendations) ==
    SelectSeq(recommendations, LAMBDA r : Get(r, "priority") = "MEDIUM")
    \o SelectSeq(recommendations, LAMBDA r : Get(r, "priority") = "HIGH")

\* high_priority_recs + medium_priority_recs
Prioritized(recommendations) ==
    SelectSeq(recommendations, LAMBDA r : Get(r, "priority") = "HIGH")
    \o SelectSeq(recommendations, LAMBDA r : Get(r, "priority") = "MEDIUM")

\* a coordinator that escalates the critical bottlenecks before it handles the
\* recommendations
make_decisions_escalationsFirst(bottlenecks, recommendations, current_date) ==
    LET combined == Prioritized(recommendations)
        types == GroupTypes(combined)
        from_recs ==
            Flatten([i \in 1..Len(types) |->
                GroupDecisions(types[i],
                               SelectSeq(combined, LAMBDA r : r.type = types[i]),
                               current_date)])
        critical_bottlenecks == SelectSeq(bottlenecks, LAMBDA b : b.severity = "HIGH")
        escalations == [i \in 1..Len(critical_bottlenecks) |->
                           CriticalDecision(critical_bottlenecks[i], current_date)]
    IN  AppendDecisions(AppendDecisions(<<>>, escalations), from_recs)

make_decisions(bottlenecks, recommendations, current_date) ==
    LET combined == Prioritized(recommendations)
        types == GroupTypes(combined)
        from_recs ==
            Flatten([i \in 1..Len(types) |->
                GroupDecisions(types[i],
                               SelectSeq(combined, LAMBDA r : r.type = types[i]),
                               current_date)])
        critical_bottlenecks == SelectSeq(bottlenecks, LAMBDA b : b.severity = "HIGH")
        escalations == [i \in 1..Len(critical_bottlenecks) |->
                           CriticalDecision(critical_bottlenecks[i], current_date)]
    IN  AppendDecisions(AppendDecisions(<<>>, from_recs), escalations)

-----------------------------------------------------------------------------
(* Report assembly *)

EmptyDict == <<>>

get_bottleneck_summary(bottlenecks) ==
    IF bottlenecks = <<>>
    THEN [total |-> 0, by_type |-> EmptyDict, by_severity |-> EmptyDict]
    ELSE LET idx == 1..Len(bottlenecks)
         IN  [total |-> Len(bottlenecks),
              by_type |-> [t \in {bottlenecks[i].type : i \in idx} |->
                              Cardinality({i \in idx : bottlenecks[i].type = t})],
              by_severity |-> [v \in {bottlenecks[i].severity : i \in idx} |->
                              Cardinality({i \in idx : bottlenecks[i].severity = v})]]

get_data_summary(cache) ==
    [name \in DOMAIN cache |-> [rows |-> Len(cache[name])]]

\* thresholds that include their bounds
OverallStatus_inclusive(critical_bottlenecks) ==
    IF critical_bottlenecks >= 5 THEN "CRITICAL"
    ELSE IF critical_bottlenecks >= 2 THEN "WARNING"
    ELSE "NORMAL"

OverallStatus(critical_bottlenecks) ==
    IF critical_bottlenecks > 5 THEN "CRITICAL"
    ELSE IF critical_bottlenecks > 2 THEN "WARNING"
    ELSE "NORMAL"

BottleneckAlert(bottleneck) ==
    [type |-> "CRITICAL_BOTTLENECK",
     message |-> bottleneck.message,
     action_required |-> bottleneck.recommended_action,
     severity |-> "HIGH"]

\* an alert that copies the priority of its recommendation as severity
RecommendationAlert_sourcePriority(rec) ==
    [type |-> "HIGH_PRIORITY_RECOMMENDATION",
     message |-> IF "message" \in DOMAIN rec THEN rec.message ELSE rec.type,
     action_required |-> IF "action" \in DOMAIN rec THEN rec.action ELSE "REVIEW",
     severity |-> rec.priority]

RecommendationAlert(rec) ==
    [type |-> "HIGH_PRIORITY_RECOMMENDATION",
     message |-> IF "message" \in DOMAIN rec THEN rec.message ELSE rec.type,
     action_required |-> IF "action" \in DOMAIN rec THEN rec.action ELSE "REVIEW",
     severity |-> "MEDIUM"]

CreateAlerts(bottlenecks, recommendations) ==
    LET high_b == SelectSeq(bottlenecks, LAMBDA b : b.severity = "HIGH")
        high_r == SelectSeq(recommendations, LAMBDA r : Get(r, "priority") = "HIGH")
    IN  [i \in 1..Len(high_b) |-> BottleneckAlert(high_b[i])]
        \o [i \in 1..Len(high_r) |-> RecommendationAlert(high_r[i])]

\* st is the run state, summary_of the detector's stored bottlenecks, cache the
\* loader's cache (non-empty here: get_data_summary loads it otherwise)
create_comprehensive_report(st, summary_of, cache, current_date) ==
    LET critical_bottlenecks ==
            Len(SelectSeq(st.bottlenecks, LAMBDA b : b.severity = "HIGH"))
        high_priority_recs ==
            Len(SelectSeq(st.recommendations, LAMBDA r : Get(r, "priority") = "HIGH"))
        alerts == CreateAlerts(st.bottlenecks, st.recommendations)
    IN  [timestamp |-> current_date,
         status |-> OverallStatus(critical_bottlenecks),
         summary |-> [total_bottlenecks |-> Len(st.bottlenecks),
                      critical_bottlenecks |-> critical_bottlenecks,
                      total_recommendations |-> Len(st.recommendations),
                      high_priority_items |-> high_priority_recs,
                      total_alerts |-> Len(alerts)],
         bottlenecks |-> [summary |-> get_bottleneck_summary(summary_of),
                          details |-> st.bottlenecks],
         recommendations |-> st.recommendations,
         final_decisions |-> st.final_decisions,
         alerts |-> alerts,
         data_summary |-> get_data_summary(cache)]

-----------------------------------------------------------------------------
(* SupplyChainOrchestrator: the workflow steps *)

\* SupplyChainState()
NewState ==
    [data |-> EmptyDict, bottlenecks |-> <<>>, recommendations |-> <<>>,
     alerts |-> <<>>, agent_messages |-> <<>>, current_agent |-> "",
     iteration |-> 0, status |-> "INITIALIZING", final_decisions |-> <<>>,
     final_report |-> EmptyDict, report_filename |-> "", error |-> ""]

\* str(e) of the exceptions the environment raises inside a step: one raised
\* without arguments (MemoryError) has the empty text
Faults == {"", "[Errno 28] No space left on device"}

\* a handler that records a fixed text instead of str(e)
Failed_fixedText(st, msg) == [st EXCEPT !.status = "FAILED", !.error = "step failed"]

\* except Exception as e: state.status = "FAILED"; state.error = str(e)
Failed(st, msg) == [st EXCEPT !.status = "FAILED", !.error = msg]

\* an exception with text msg is raised inside step and caught by its handler,
\* st being the run state at that moment
Catch(st, step, msg) ==
    /\ state' = Failed(st, msg)
    /\ raised' = Append(raised, [step |-> step, err |-> msg])

ReportFilename(current_date) == <<"logs/supply_chain_report", current_date>>

load_data_node(snapshots) ==
    /\ UNCHANGED <<detector_bottlenecks, sink>>
    /\ \/ \E d \in snapshots :
             /\ state' = [state EXCEPT !.data = d, !.status = "DATA_LOADED"]
             /\ data_cache' = d
             /\ raised' = raised
       \/ \E msg \in Faults :
             /\ Catch(state, "load_data_node", msg)
             /\ data_cache' = data_cache

detect_bottlenecks_node ==
    /\ UNCHANGED <<data_cache, sink>>
    /\ IF state.status = "FAILED"
       THEN UNCHANGED <<state, detector_bottlenecks, raised>>
       ELSE \/ LET res == IF "inventory" \in DOMAIN state.data
                          THEN run_full_analysis(state.data, now)
                          ELSE Raise("'inventory'")
               IN  IF res.ok
                   THEN /\ state' = [state EXCEPT !.bottlenecks = res.val,
                                                  !.status = "BOTTLENECKS_DETECTED"]
                        /\ detector_bottlenecks' = res.val
                        /\ raised' = raised
                   ELSE /\ Catch(state, "detect_bottlenecks_node", res.err)
                        /\ detector_bottlenecks' = detector_bottlenecks
            \/ \E msg \in Faults :
                  /\ Catch(state, "detect_bottlenecks_node", msg)
                  /\ detector_bottlenecks' = detector_bottlenecks

\* data.get(name) is None on an empty dict: the agent returns no recommendation
demand_monitoring_node ==
    /\ UNCHANGED <<data_cache, sink, detector_bottlenecks>>
    /\ IF state.status = "FAILED"
       THEN UNCHANGED <<state, raised>>
       ELSE \/ LET recommendations ==
                       IF state.data = EmptyDict THEN <<>>
                       ELSE analyze_demand(state.data, state.bottlenecks, now)
               IN  /\ state' = [state EXCEPT
                         !.recommendations = state.recommendations \o recommendations,
                         !.status = "DEMAND_ANALYZED"]
                   /\ raised' = raised
            \/ \E msg \in Faults : Catch(state, "demand_monitoring_node", msg)

inventory_management_node ==
    /\ UNCHANGED <<data_cache, sink, detector_bottlenecks>>
    /\ IF state.status = "FAILED"
       THEN UNCHANGED <<state, raised>>
       ELSE \/ LET res == IF state.data = EmptyDict THEN Ok(<<>>)
                          ELSE optimize_inventory(state.data, state.bottlenecks)
               IN  IF res.ok
                   THEN /\ state' = [state EXCEPT
                              !.recommendations = state.recommendations \o res.val,
                              !.status = "INVENTORY_OPTIMIZED"]
                        /\ raised' = raised
                   ELSE Catch(state, "inventory_management_node", res.err)
            \/ \E msg \in Faults : Catch(state, "inventory_management_node", msg)

logistics_optimization_node ==
    /\ UNCHANGED <<data_cache, sink, detector_bottlenecks>>
    /\ IF state.status = "FAILED"
       THEN UNCHANGED <<state, raised>>
       ELSE \/ LET recommendations ==
                       IF state.data = EmptyDict THEN <<>>
                       ELSE optimize_logistics(state.data, state.bottlenecks, now)
               IN  /\ state' = [state EXCEPT
                         !.recommendations = state.recommendations \o recommendations,
                         !.status = "LOGISTICS_OPTIMIZED"]
                   /\ raised' = raised
            \/ \E msg \in Faults : Catch(state, "logistics_optimization_node", msg)

orchestration_node ==
    /\ UNCHANGED <<data_cache, sink, detector_bottlenecks>>
    /\ IF state.status = "FAILED"
       THEN UNCHANGED <<state, raised>>
       ELSE \/ /\ state' = [state EXCEPT
                     !.final_decisions =
                         make_decisions(state.bottlenecks, state.recommendations, now),
                     !.status = "DECISIONS_MADE"]
               /\ raised' = raised
            \/ \E msg \in Faults : Catch(state, "orchestration_node", msg)

\* state.final_report = report; state.status = "COMPLETED", before the file is opened
ReportStored(st, report) ==
    [st EXCEPT !.final_report = report, !.status = "COMPLETED"]

\* with open(filename, 'w') as f: json.dump(report, f, ...)
Written(files, filename, report) ==
    Append(files, [filename |-> filename, content |-> report])

\* get_data_summary reloads the files when the cache is empty
generate_report_node(snapshots) ==
    /\ UNCHANGED detector_bottlenecks
    /\ IF state.status = "FAILED"
       THEN UNCHANGED <<state, data_cache, sink, raised>>
       ELSE \/ \E msg \in Faults :
                  \* raised while the report is built
                  /\ Catch(state, "generate_report_node", msg)
                  /\ UNCHANGED <<data_cache, sink>>
            \/ \E cache \in (IF data_cache = EmptyDict THEN snapshots
                                                        ELSE {data_cache}) :
                  LET report == create_comprehensive_report(
                                    state, detector_bottlenecks, cache, now)
                      stored == ReportStored(state, report)
                  IN  /\ data_cache' = cache
                      /\ \/ /\ sink' = Written(sink, ReportFilename(now), report)
                            /\ state' = [stored EXCEPT
                                            !.report_filename = ReportFilename(now)]
                            /\ raised' = raised
                         \/ \E msg \in Faults :
                               \* raised by open() once the report is stored
                               /\ Catch(stored, "generate_report_node", msg)
                               /\ sink' = sink

\* step(state) for the step function of that name
Invoke(step, snapshots) ==
    /\ history' = Append(history, step)
    /\ \/ step = "load_data_node" /\ load_data_node(snapshots)
       \/ step = "detect_bottlenecks_node" /\ detect_bottlenecks_node
       \/ step = "demand_monitoring_node" /\ demand_monitoring_node
       \/ step = "inventory_management_node" /\ inventory_management_node
       \/ step = "logistics_optimization_node" /\ logistics_optimization_node
       \/ step = "orchestration_node" /\ orchestration_node
       \/ step = "generate_report_node" /\ generate_report_node(snapshots)

-----------------------------------------------------------------------------
(* SupplyChainOrchestrator.run_analysis *)

\* the agents registered ahead of bottleneck detection
workflow_steps_agentFirst ==
    <<"load_data_node", "demand_monitoring_node", "detect_bottlenecks_node",
      "inventory_management_node", "logistics_optimization_node",
      "orchestration_node", "generate_report_node">>

\* a workflow that coordinates the decisions before the Logistics agent ran
workflow_steps_decideBeforeLogistics ==
    <<"load_data_node", "detect_bottlenecks_node", "demand_monitoring_node",
      "inventory_management_node", "orchestration_node",
      "logistics_optimization_node", "generate_report_node">>

\* self.workflow_steps
workflow_steps ==
    <<"load_data_node", "detect_bottlenecks_node", "demand_monitoring_node",
      "inventory_management_node", "logistics_optimization_node",
      "orchestration_node", "generate_report_node">>

\* value of pc once run_analysis has returned
Returned == Len(workflow_steps) + 1

\* a driver that runs every step and looks at the status only at the end
ReturnsAfter_runThrough(k, st) == k = Len(workflow_steps)

\* whether run_analysis returns right after step k left the state st
ReturnsAfter(k, st) == st.status = "FAILED" \/ k = Len(workflow_steps)

\* the dict run_analysis returns after step k left the state st
RunResult(k, st) ==
    IF st.status = "FAILED"
    THEN [status |-> "FAILED", error |-> st.error, failed_step |-> workflow_steps[k]]
    ELSE [status |-> "SUCCESS", final_report |-> st.final_report,
          report_filename |-> st.report_filename]

\* one iteration of "for step in self.workflow_steps"
RunStepOn(snapshots) ==
    /\ pc \in 1..Len(workflow_steps)
    /\ Invoke(workflow_steps[pc], snapshots)
    /\ IF ReturnsAfter(pc, state')
       THEN pc' = Returned /\ result' = RunResult(pc, state')
       ELSE pc' = pc + 1 /\ result' = result
    /\ UNCHANGED <<now, call>>

RunStep == RunStepOn(Snapshots(MaxRows))

\* time passes while the run is under way
Tick ==
    /\ pc \in 1..Len(workflow_steps)
    /\ now < MaxNow
    /\ now' = now + 1
    /\ UNCHANGED <<state, pc, history, result, sink, detector_bottlenecks,
                   data_cache, raised, call>>

\* run_analysis has not returned yet
NotReturned == [status |-> "RUNNING"]

\* no function is called directly
NoCall == [fn |-> "none"]

Init ==
    /\ state = NewState
    /\ pc = 1
    /\ history = <<>>
    /\ result = NotReturned
    /\ sink = <<>>
    /\ detector_bottlenecks = <<>>
    /\ data_cache = EmptyDict
    /\ now = 0
    /\ raised = <<>>
    /\ call = NoCall

Next ==
    \/ RunStep
    \/ Tick

Spec == Init /\ [][Next]_vars

-----------------------------------------------------------------------------
(* The step functions called directly, in any order, on one run state *)

InitNodes ==
    /\ state = NewState
    /\ pc = 0
    /\ history = <<>>
    /\ result = NotReturned
    /\ sink = <<>>
    /\ detector_bottlenecks = <<>>
    /\ data_cache = EmptyDict
    /\ now = 0
    /\ raised = <<>>
    /\ call = NoCall

CallStep ==
    /\ Len(history) < MaxCalls
    /\ \E step \in {workflow_steps[k] : k \in 1..Len(workflow_steps)} :
           Invoke(step, Snapshots(MaxNodeRows))
    /\ UNCHANGED <<pc, result, now, call>>

NextNodes == CallStep

SpecNodes == InitNodes /\ [][NextNodes]_vars

-----------------------------------------------------------------------------
(* run_full_analysis called directly on any snapshot *)

Idle ==
    /\ state = NewState
    /\ pc = 0
    /\ history = <<>>
    /\ result = NotReturned
    /\ sink = <<>>
    /\ detector_bottlenecks = <<>>
    /\ data_cache = EmptyDict
    /\ raised = <<>>

InitDetect ==
    /\ Idle
    /\ now \in 0..MaxNow
    /\ call \in { [fn |-> "run_full_analysis", data |-> d, done |-> FALSE] :
                     d \in Snapshots(MaxCallRows) }

CallDetect ==
    /\ call.fn = "run_full_analysis"
    /\ ~call.done
    /\ LET res == run_full_analysis(call.data, now)
       IN  /\ call' = [fn |-> call.fn, data |-> call.data, done |-> TRUE, out |-> res]
           /\ detector_bottlenecks' = IF res.ok THEN res.val ELSE detector_bottlenecks
    /\ UNCHANGED <<state, pc, history, result, sink, data_cache, now, raised>>

NextDetect == CallDetect

SpecDetect == InitDetect /\ [][NextDetect]_vars

-----------------------------------------------------------------------------
(* make_decisions called directly on any lists *)

SampleItem(p, stock) ==
    [product_id |-> p, product_name |-> ProductName(p), current_stock |-> stock,
     min_threshold |-> 50, warehouse_id |-> "W1", supplier_id |-> "SUP1"]

SampleShipment == CHOOSE s \in Shipments : s.shipment_id = "S1"

\* bottlenecks as the detectors build them; their ids follow their position
SampleBottlenecks ==
    { LowStockBottleneck(SampleItem("P1", 10)),
      LowStockBottleneck(SampleItem("P1", 30)),
      DelayedBottleneck(SampleShipment, 0) }

\* recommendations as the agents build them, one of a priority no agent uses
\* and one of a type that the agents emit with another priority
SampleRecs ==
    { InventoryRecs(SampleItem("P1", 10))[1],
      InventoryRecs(SampleItem("P1", 30))[1],
      InventoryRecs(SampleItem("P2", 10))[1],
      ResolveInventoryRec(AssignIds(<<LowStockBottleneck(SampleItem("P1", 10))>>, 0)[1]),
      ExpediteRec(SampleShipment),
      AddressDemandRec([type |-> T_DEMAND_SPIKE, message |-> <<"demand spike">>]),
      CarrierRecs(<<SampleShipment, CHOOSE s \in Shipments : s.shipment_id = "S2">>)[1],
      [InventoryRecs(SampleItem("P2", 30))[1] EXCEPT !.priority = "LOW"],
      [InventoryRecs(SampleItem("P1", 30))[1] EXCEPT !.priority = "HIGH"] }

SeqsUpTo(S, n) == UNION { [1..k -> S] : k \in 0..n }

InitDecide ==
    /\ Idle
    /\ now = 0
    /\ call \in { [fn |-> "make_decisions", bottlenecks |-> AssignIds(b, 0),
                   recommendations |-> r, done |-> FALSE] :
                     b \in SeqsUpTo(SampleBottlenecks, MaxBns),
                     r \in SeqsUpTo(SampleRecs, MaxRecs) }

CallDecide ==
    /\ call.fn = "make_decisions"
    /\ ~call.done
    /\ call' = [fn |-> call.fn, bottlenecks |-> call.bottlenecks,
                recommendations |-> call.recommendations, done |-> TRUE,
                out |-> make_decisions(call.bottlenecks, call.recommendations, now)]
    /\ UNCHANGED <<state, pc, history, result, sink, detector_bottlenecks,
                   data_cache, now, raised>>

NextDecide == CallDecide

SpecDecide == InitDecide /\ [][NextDecide]_vars

-----------------------------------------------------------------------------
(* The report step of a run over an inventory with many shortages *)

\* snapshots of up to n inventory rows, with or without a pending order
BulkSnapshots(n) ==
    { [inventory |-> a, orders |-> b, shipments |-> <<>>, suppliers |-> <<>>,
       demand_history |-> <<>>, warehouses |-> <<>>] :
         a \in SeqsUpTo({SampleItem("P1", 10), SampleItem("P1", 30),
                         SampleItem("P1", 60)}, n),
         b \in {<<>>, <<CHOOSE o \in Orders : o.order_date = 0 /\ o.status = "PENDING">>} }

\* the run state the first six steps leave at time 0 when none of them raises
StateBeforeReport(d) ==
    LET bottlenecks == run_full_analysis(d, 0).val
        recommendations == analyze_demand(d, bottlenecks, 0)
                           \o optimize_inventory(d, bottlenecks).val
                           \o optimize_logistics(d, bottlenecks, 0)
    IN  [NewState EXCEPT
            !.data = d,
            !.bottlenecks = bottlenecks,
            !.recommendations = recommendations,
            !.final_decisions = make_decisions(bottlenecks, recommendations, 0),
            !.status = "DECISIONS_MADE"]

InitReport ==
    \E d \in BulkSnapshots(MaxBulkItems) :
        /\ state = StateBeforeReport(d)
        /\ pc = Len(workflow_steps)
        /\ history = SubSeq(workflow_steps, 1, Len(workflow_steps) - 1)
        /\ result = NotReturned
        /\ sink = <<>>
        /\ detector_bottlenecks = state.bottlenecks
        /\ data_cache = d
        /\ now = 0
        /\ raised = <<>>
        /\ call = NoCall

SpecReport == InitReport /\ [][Next]_vars

-----------------------------------------------------------------------------
(* detect_demand_spikes called directly on any demand history *)

\* a demand history of k rows: products p, dates t and quantities q by file row
DemandHistory(k, p, t, q) ==
    [i \in 1..k |-> [product_id |-> p[i], date |-> t[i], demand_quantity |-> q[i]]]

\* k distinct dates out of n, in any file order
DemandDates(k, n) ==
    {f \in [1..k -> 1..n] : \A i, j \in 1..k : i # j => f[i] # f[j]}

\* histories of up to MaxDemandRows rows: two products with quantities 10 and
\* 90, or one product with quantities 0, 10 and 20
InitSpikes ==
    /\ Idle
    /\ now = 0
    /\ \E k \in 0..MaxDemandRows : \E t \in DemandDates(k, MaxDemandRows) :
          \/ \E p \in [1..k -> {"P1", "P2"}], q \in [1..k -> {10, 90}] :
                call = [fn |-> "detect_demand_spikes",
                        demand_history |-> DemandHistory(k, p, t, q), done |-> FALSE]
          \/ \E q \in [1..k -> {0, 10, 20}] :
                call = [fn |-> "detect_demand_spikes",
                        demand_history |-> DemandHistory(k, [i \in 1..k |-> "P1"], t, q),
                        done |-> FALSE]

CallSpikes ==
    /\ call.fn = "detect_demand_spikes"
    /\ ~call.done
    /\ call' = [fn |-> call.fn, demand_history |-> call.demand_history, done |-> TRUE,
                out |-> detect_demand_spikes(call.demand_history)]
    /\ UNCHANGED <<state, pc, history, result, sink, detector_bottlenecks,
                   data_cache, now, raised>>

SpecSpikes == InitSpikes /\ [][CallSpikes]_vars

-----------------------------------------------------------------------------
(* SupplyChainOrchestrator.get_real_time_status *)

\* a status dict that lists every critical issue
RealTimeStatus_untruncated(bottlenecks, current_date) ==
    LET critical_issues == SelectSeq(bottlenecks, LAMBDA b : b.severity = "HIGH")
        Health(kw) == IF \E i \in 1..Len(bottlenecks) : Contains(bottlenecks[i].type, kw)
                      THEN "WARNING" ELSE "GOOD"
    IN  [timestamp |-> current_date,
         overall_status |-> IF Len(critical_issues) > 3 THEN "CRITICAL"
                            ELSE IF Len(critical_issues) > 0 THEN "WARNING"
                            ELSE "NORMAL",
         total_bottlenecks |-> Len(bottlenecks),
         critical_issues_count |-> Len(critical_issues),
         critical_issues |-> critical_issues,
         system_health |-> [data_loading |-> "GOOD",
                            inventory_levels |-> Health("INVENTORY"),
                            shipment_status |-> Health("SHIPMENT"),
                            supplier_reliability |-> Health("SUPPLIER")]]

\* the dict returned when loading and detection succeed
RealTimeStatus(bottlenecks, current_date) ==
    LET critical_issues == SelectSeq(bottlenecks, LAMBDA b : b.severity = "HIGH")
        Health(kw) == IF \E i \in 1..Len(bottlenecks) : Contains(bottlenecks[i].type, kw)
                      THEN "WARNING" ELSE "GOOD"
    IN  [timestamp |-> current_date,
         overall_status |-> IF Len(critical_issues) > 3 THEN "CRITICAL"
                            ELSE IF Len(critical_issues) > 0 THEN "WARNING"
                            ELSE "NORMAL",
         total_bottlenecks |-> Len(bottlenecks),
         critical_issues_count |-> Len(critical_issues),
         critical_issues |-> SubSeq(critical_issues, 1,
                                    IF Len(critical_issues) < 5
                                    THEN Len(critical_issues) ELSE 5),
         system_health |-> [data_loading |-> "GOOD",
                            inventory_levels |-> Health("INVENTORY"),
                            shipment_status |-> Health("SHIPMENT"),
                            supplier_reliability |-> Health("SUPPLIER")]]

\* the files are loaded anew and the detector run on them; whatever is raised
\* on the way is turned into an ERROR dict
get_real_time_status(snapshots) ==
    \/ \E d \in snapshots :
          LET res == run_full_analysis(d, now)
          IN  /\ data_cache' = d
              /\ detector_bottlenecks' = IF res.ok THEN res.val ELSE detector_bottlenecks
              /\ call' = [fn |-> "get_real_time_status",
                          out |-> IF res.ok THEN RealTimeStatus(res.val, now)
                                  ELSE [timestamp |-> now, overall_status |-> "ERROR",
                                        error |-> res.err]]
    \/ \E msg \in Faults :
          /\ call' = [fn |-> "get_real_time_status",
                      out |-> [timestamp |-> now, overall_status |-> "ERROR",
                               error |-> msg]]
          /\ UNCHANGED <<data_cache, detector_bottlenecks>>

InitStatus ==
    /\ Idle
    /\ now \in 0..MaxNow
    /\ call = NoCall

CallStatus ==
    /\ call = NoCall
    /\ get_real_time_status(BulkSnapshots(MaxBulkItems) \cup Snapshots(MaxCallRows))
    /\ UNCHANGED <<state, pc, history, result, sink, now, raised>>

SpecStatus == InitStatus /\ [][CallStatus]_vars

-----------------------------------------------------------------------------
(* Several calls of run_analysis and get_real_time_status on one orchestrator *)

\* what the data files hold at the moment of a call: at most one inventory
\* row and one order
SessionSnapshots == BulkSnapshots(1)

\* a run that goes on with the run state of the run before it
StartRun_keepsState ==
    /\ pc = Returned
    /\ now < MaxNow
    /\ now' = now + 1
    /\ state' = [state EXCEPT !.status = "INITIALIZING", !.error = ""]
    /\ pc' = 1
    /\ history' = <<>>
    /\ result' = NotReturned
    /\ raised' = <<>>
    /\ UNCHANGED <<sink, detector_bottlenecks, data_cache, call>>

\* run_analysis is called again, later: state = SupplyChainState()
StartRun ==
    /\ pc = Returned
    /\ now < MaxNow
    /\ now' = now + 1
    /\ state' = NewState
    /\ pc' = 1
    /\ history' = <<>>
    /\ result' = NotReturned
    /\ raised' = <<>>
    /\ UNCHANGED <<sink, detector_bottlenecks, data_cache, call>>

\* get_real_time_status is called before or after a run
StatusBetweenRuns ==
    /\ call = NoCall
    /\ pc = Returned \/ history = <<>>
    /\ get_real_time_status(SessionSnapshots)
    /\ UNCHANGED <<state, pc, history, result, sink, now, raised>>

NextSession ==
    \/ RunStepOn(SessionSnapshots)
    \/ StartRun
    \/ StatusBetweenRuns

SpecSession == Init /\ [][NextSession]_vars

\* get_real_time_status is called by another thread while a run is under way
StatusDuringRun ==
    /\ call = NoCall
    /\ pc \in 2..Len(workflow_steps)
    /\ get_real_time_status(SessionSnapshots)
    /\ UNCHANGED <<state, pc, history, result, sink, now, raised>>

NextInterleaved ==
    \/ RunStepOn(SessionSnapshots)
    \/ StatusDuringRun

SpecInterleaved == Init /\ [][NextInterleaved]_vars

-----------------------------------------------------------------------------
(* analyze_demand called directly on any orders and demand history *)

\* small orders of two products, placed now, 7 days ago or longer ago
AgentOrders ==
    { [product_id |-> o[1], quantity |-> o[2], order_date |-> o[3], status |-> "PENDING"] :
         o \in { <<"P1", 3, 0>>, <<"P1", 1, 0>>, <<"P1", 3, 0 - Week * Day>>,
                 <<"P2", 3, 0 - 3 * Week * Day>> } }

AgentDemandRows ==
    { [product_id |-> r[1], date |-> r[2], demand_quantity |-> r[3]] :
         r \in { <<"P1", 1, 1>>, <<"P1", 2, 3>>, <<"P2", 1, 1>> } }

InitDemand ==
    /\ Idle
    /\ now \in 0..MaxNow
    /\ call \in { [fn |-> "analyze_demand", done |-> FALSE,
                   data |-> [inventory |-> <<>>, orders |-> o, shipments |-> <<>>,
                             suppliers |-> <<>>, demand_history |-> h,
                             warehouses |-> <<>>]] :
                     o \in SeqsUpTo(AgentOrders, MaxAgentRows),
                     h \in SeqsUpTo(AgentDemandRows, MaxAgentRows) }

CallDemand ==
    /\ call.fn = "analyze_demand"
    /\ ~call.done
    /\ call' = [fn |-> call.fn, data |-> call.data, done |-> TRUE,
                out |-> analyze_demand(call.data, <<>>, now)]
    /\ UNCHANGED <<state, pc, history, result, sink, detector_bottlenecks,
                   data_cache, now, raised>>

SpecDemand == InitDemand /\ [][CallDemand]_vars

-----------------------------------------------------------------------------
(* Properties *)

\* the three decimal digits of an identifier number below 1000
Digits3(n) == <<n \div 100, (n \div 10) % 10, n % 10>>

\* C1: after any step, for any exception a step may raise (one with an empty
\* text included), the status is FAILED if and only if error is non-empty.
C1_FailedIffError == (state.status = "FAILED") <=> (state.error # "")

\* C2: every one of the 7 step functions entered with status FAILED returns
\* the run state unchanged.
C2_FailedStateUnchanged == [][state.status = "FAILED" => state' = state]_vars

\* C3: an exception raised in a step is caught by that step, its text is stored
\* verbatim in error with status FAILED, the step is not run again, and
\* run_analysis returns at once the failure result with that text and that step.
C3_FailureCaughtAndReported ==
    raised # <<>> =>
        /\ Len(raised) = 1
        /\ state.status = "FAILED"
        /\ state.error = raised[1].err
        /\ pc = Returned
        /\ result = [status |-> "FAILED", error |-> raised[1].err,
                     failed_step |-> raised[1].step]
        /\ Cardinality({i \in 1..Len(history) : history[i] = raised[1].step}) = 1
        /\ history[Len(history)] = raised[1].step

C3_Witness ==
    /\ pc = Returned
    /\ raised = <<[step |-> "inventory_management_node", err |-> "division by zero"]>>
    /\ result.failed_step = "inventory_management_node"

\* C4: at the end of a run either the status is COMPLETED, the report exists
\* and was written, or the status is FAILED and no report exists in the run
\* state nor in the result.
C4_NoPartialSuccess ==
    pc = Returned =>
        \/ /\ state.status = "COMPLETED"
           /\ state.final_report # EmptyDict
           /\ result.status = "SUCCESS"
           /\ \E i \in 1..Len(sink) : sink[i].content = state.final_report
        \/ /\ state.status = "FAILED"
           /\ state.final_report = EmptyDict
           /\ "final_report" \notin DOMAIN result

\* C5: when no step raises, the 7 steps have run once each in the order load,
\* detect, demand, inventory, logistics, coordinate, report, the status is
\* COMPLETED, and the report returned is the report written to the file.
C5_SuccessfulRun ==
    (pc = Returned /\ raised = <<>>) =>
        /\ history = <<"load_data_node", "detect_bottlenecks_node",
                       "demand_monitoring_node", "inventory_management_node",
                       "logistics_optimization_node", "orchestration_node",
                       "generate_report_node">>
        /\ state.status = "COMPLETED"
        /\ result.status = "SUCCESS"
        /\ result.final_report = state.final_report
        /\ Len(sink) = 1
        /\ sink[1].content = result.final_report
        /\ sink[1].filename = result.report_filename

C5_Witness ==
    /\ pc = Returned
    /\ raised = <<>>
    /\ result.status = "SUCCESS"
    /\ Len(result.final_report.final_decisions) >= 2
    /\ Len(sink) = 1

\* C6 as stated: on every run all 7 steps are invoked before run_analysis returns.
C6_AllStepsInvoked == pc = Returned => Len(history) = Len(workflow_steps)

\* C6 amended: the steps are invoked in order up to the first one that fails;
\* run_analysis then returns at once, naming that step, and invokes no later one.
C6_StopsAtFirstFailure ==
    /\ raised # <<>> => pc = Returned
    /\ pc = Returned =>
          /\ history = SubSeq(<<"load_data_node", "detect_bottlenecks_node",
                                "demand_monitoring_node", "inventory_management_node",
                                "logistics_optimization_node", "orchestration_node",
                                "generate_report_node">>, 1, Len(history))
          /\ result.status = "FAILED" =>
                /\ raised # <<>>
                /\ raised[1].step = history[Len(history)]
                /\ result.failed_step = history[Len(history)]
          /\ result.status = "SUCCESS" => Len(history) = 7

C6_Witness ==
    /\ pc = Returned
    /\ result.status = "FAILED"
    /\ history = <<"load_data_node", "detect_bottlenecks_node">>
    /\ state.error = "'current_utilization'"

\* C7: the decision ids of the list make_decisions returns are DEC_001,
\* DEC_002, ..., DEC_n in list order, across all kinds of decision.
C7_DecisionIdsContiguous ==
    (call.fn = "make_decisions" /\ call.done) =>
        \A i \in 1..Len(call.out) : call.out[i].decision_id = <<"DEC">> \o Digits3(i)

C7_Witness ==
    /\ call.fn = "make_decisions"
    /\ call.done
    /\ \E i, j, k, l \in 1..Len(call.out) :
          /\ i < j /\ j < k /\ k < l
          /\ call.out[i].type = "INVENTORY_ACTION"
          /\ call.out[j].type = "LOGISTICS_ACTION"
          /\ call.out[k].type = "CRITICAL_BOTTLENECK_RESOLUTION"
          /\ call.out[l].type = "CRITICAL_BOTTLENECK_RESOLUTION"

\* the detector that emits a bottleneck type, by its place in run_full_analysis
DetectorOf(type) ==
    CASE type \in {T_INVENTORY_SHORTAGE, T_INSUFFICIENT_STOCK} -> 1
      [] type \in {T_DELAYED_SHIPMENT, T_AT_RISK_SHIPMENT} -> 2
      [] type = T_WAREHOUSE_CAPACITY -> 3
      [] type = T_DEMAND_SPIKE -> 4
      [] type = T_SUPPLIER_ISSUE -> 5

\* C8: run_full_analysis numbers the bottlenecks BN_001..BN_n in list order,
\* and the list holds the inventory results first, then the delayed-shipment,
\* capacity, demand-spike and supplier results.
C8_IdsFollowDetectorOrder ==
    (call.fn = "run_full_analysis" /\ call.done /\ call.out.ok) =>
        LET b == call.out.val
        IN  /\ \A i \in 1..Len(b) : b[i].id = <<"BN">> \o Digits3(i)
            /\ \A i, j \in 1..Len(b) :
                   i < j => DetectorOf(b[i].type) <= DetectorOf(b[j].type)

C8_Witness ==
    /\ call.fn = "run_full_analysis"
    /\ call.done
    /\ call.out.ok
    /\ Len(call.out.val) >= 3
    /\ DetectorOf(call.out.val[1].type) = 1
    /\ DetectorOf(call.out.val[2].type) = 2
    /\ DetectorOf(call.out.val[3].type) = 4

\* C9: the alerts of a report are one CRITICAL_BOTTLENECK alert of severity
\* HIGH per HIGH bottleneck, then one HIGH_PRIORITY_RECOMMENDATION alert of
\* severity MEDIUM per HIGH recommendation, its action REVIEW when the
\* recommendation has none; total_alerts counts them.
C9_AlertsMatchHighItems ==
    state.final_report # EmptyDict =>
        LET rep == state.final_report
            hb == SelectSeq(state.bottlenecks, LAMBDA b : b.severity = "HIGH")
            hr == SelectSeq(state.recommendations, LAMBDA r : r.priority = "HIGH")
        IN  /\ Len(rep.alerts) = Len(hb) + Len(hr)
            /\ rep.summary.total_alerts = Len(hb) + Len(hr)
            /\ \A i \in 1..Len(hb) :
                   /\ rep.alerts[i].type = "CRITICAL_BOTTLENECK"
                   /\ rep.alerts[i].severity = "HIGH"
                   /\ rep.alerts[i].message = hb[i].message
                   /\ rep.alerts[i].action_required = hb[i].recommended_action
            /\ \A i \in 1..Len(hr) :
                   LET a == rep.alerts[Len(hb) + i]
                   IN  /\ a.type = "HIGH_PRIORITY_RECOMMENDATION"
                       /\ a.severity = "MEDIUM"
                       /\ a.message = hr[i].message
                       /\ a.action_required = IF "action" \in DOMAIN hr[i]
                                              THEN hr[i].action ELSE "REVIEW"

C9_Witness ==
    /\ state.final_report # EmptyDict
    /\ \E i, j, k \in 1..Len(state.final_report.alerts) :
          /\ state.final_report.alerts[i].type = "CRITICAL_BOTTLENECK"
          /\ state.final_report.alerts[j].type = "HIGH_PRIORITY_RECOMMENDATION"
          /\ state.final_report.alerts[j].action_required = "REVIEW"
          /\ state.final_report.alerts[k].type = "HIGH_PRIORITY_RECOMMENDATION"
          /\ state.final_report.alerts[k].action_required = "REORDER_IMMEDIATELY"

\* C10: given a MEDIUM STANDARD_REORDER and a HIGH EMERGENCY_REORDER for the
\* same product, in either order, make_decisions emits exactly one
\* INVENTORY_ACTION decision for that product, of priority HIGH.
C10_OneHighInventoryAction ==
    (/\ call.fn = "make_decisions"
     /\ call.done
     /\ Len(call.recommendations) = 2
     /\ \E i, j \in 1..2 :
           /\ call.recommendations[i].type = R_STANDARD_REORDER
           /\ call.recommendations[i].priority = "MEDIUM"
           /\ call.recommendations[j].type = R_EMERGENCY_REORDER
           /\ call.recommendations[j].priority = "HIGH"
           /\ call.recommendations[i].product_id = call.recommendations[j].product_id)
    => LET p == call.recommendations[1].product_id
           acts == SelectSeq(call.out, LAMBDA d :
                       d.type = "INVENTORY_ACTION" /\ d.product_id = p)
       IN  Len(acts) = 1 /\ acts[1].priority = "HIGH"

\* the number of HIGH-severity bottlenecks of a list
HighCount(bottlenecks) ==
    Cardinality({i \in 1..Len(bottlenecks) : bottlenecks[i].severity = "HIGH"})

\* C11: the status of a report is CRITICAL when more than 5 bottlenecks are
\* HIGH, WARNING when 3, 4 or 5 are, NORMAL otherwise, whatever the
\* recommendations and decisions; with no HIGH bottleneck and no HIGH
\* recommendation it is NORMAL and the alerts are empty.
C11_StatusFromHighBottlenecks ==
    state.final_report # EmptyDict =>
        LET rep == state.final_report
            h == HighCount(state.bottlenecks)
            hr == Cardinality({i \in 1..Len(state.recommendations) :
                                  state.recommendations[i].priority = "HIGH"})
        IN  /\ h >= 6 => rep.status = "CRITICAL"
            /\ h \in 3..5 => rep.status = "WARNING"
            /\ h <= 2 => rep.status = "NORMAL"
            /\ (h = 0 /\ hr = 0) => (rep.status = "NORMAL" /\ rep.alerts = <<>>)

C11_Witness ==
    /\ state.final_report # EmptyDict
    /\ HighCount(state.bottlenecks) = 5
    /\ state.final_report.status = "WARNING"
    /\ Len(state.final_decisions) > 5

\* C12: the shortage detector flags as INVENTORY_SHORTAGE exactly the items
\* with current_stock <= min_threshold, in table order, HIGH exactly when
\* current_stock < 0.5 * min_threshold and MEDIUM otherwise; an item with
\* current_stock = min_threshold is flagged MEDIUM.
C12_ShortageAtOrBelowThreshold ==
    (call.fn = "run_full_analysis" /\ call.done /\ call.out.ok) =>
        LET low == SelectSeq(call.data.inventory, LAMBDA it :
                       it.current_stock <= it.min_threshold)
            found == SelectSeq(call.out.val, LAMBDA b : b.type = T_INVENTORY_SHORTAGE)
        IN  /\ Len(found) = Len(low)
            /\ \A i \in 1..Len(low) :
                  /\ found[i].product_id = low[i].product_id
                  /\ found[i].current_stock = low[i].current_stock
                  /\ found[i].min_threshold = low[i].min_threshold
                  /\ found[i].severity \in {"HIGH", "MEDIUM"}
                  /\ found[i].severity = "HIGH" <=>
                         2 * low[i].current_stock < low[i].min_threshold
                  /\ low[i].current_stock = low[i].min_threshold =>
                         found[i].severity = "MEDIUM"

C12_Witness ==
    /\ call.fn = "run_full_analysis"
    /\ call.done
    /\ call.out.ok
    /\ \E i, j \in 1..Len(call.out.val) :
          /\ call.out.val[i].type = T_INVENTORY_SHORTAGE
          /\ call.out.val[i].current_stock = call.out.val[i].min_threshold
          /\ call.out.val[i].severity = "MEDIUM"
          /\ call.out.val[j].type = T_INVENTORY_SHORTAGE
          /\ call.out.val[j].current_stock = 25
          /\ call.out.val[j].severity = "MEDIUM"

\* the rows of a product in a demand history
RowsOf(demand_history, p) ==
    {i \in 1..Len(demand_history) : demand_history[i].product_id = p}

\* C13: the spike detector emits no DEMAND_SPIKE for a product with fewer than
\* 3 rows of demand history, whatever the quantities, and at most one
\* DEMAND_SPIKE per product.
C13_NoSpikeBelowThreeRows ==
    (call.fn = "detect_demand_spikes" /\ call.done) =>
        /\ \A i \in 1..Len(call.out) :
              /\ call.out[i].type = T_DEMAND_SPIKE
              /\ Cardinality(RowsOf(call.demand_history, call.out[i].product_id)) >= 3
        /\ \A i, j \in 1..Len(call.out) :
              call.out[i].product_id = call.out[j].product_id => i = j

C13_Witness ==
    /\ call.fn = "detect_demand_spikes"
    /\ call.done
    /\ Cardinality(RowsOf(call.demand_history, "P2")) = 2
    /\ \E i, j \in RowsOf(call.demand_history, "P2") :
          /\ call.demand_history[i].date < call.demand_history[j].date
          /\ call.demand_history[i].demand_quantity = 10
          /\ call.demand_history[j].demand_quantity = 90
    /\ call.out = <<>>

\* C14: per inventory item the Inventory agent emits EMERGENCY_REORDER (HIGH,
\* quantity 2 * min_threshold) when current_stock / min_threshold < 0.5,
\* otherwise STANDARD_REORDER (MEDIUM, quantity 1.5 * min_threshold) when the
\* ratio is below 1.0, otherwise nothing, never both; an item with stock 10 and
\* threshold 50 has a HIGH INVENTORY_SHORTAGE bottleneck and an
\* EMERGENCY_REORDER of quantity 100.
C14_ReorderByStockRatio ==
    state.status = "INVENTORY_OPTIMIZED" =>
        LET below == SelectSeq(state.data.inventory, LAMBDA it :
                         it.current_stock < it.min_threshold)
            reorders == SelectSeq(state.recommendations, LAMBDA r :
                            r.type \in {R_EMERGENCY_REORDER, R_STANDARD_REORDER})
        IN  /\ Len(reorders) = Len(below)
            /\ \A i \in 1..Len(below) :
                  /\ reorders[i].product_id = below[i].product_id
                  /\ reorders[i].current_stock = below[i].current_stock
                  /\ IF 2 * below[i].current_stock < below[i].min_threshold
                     THEN /\ reorders[i].type = R_EMERGENCY_REORDER
                          /\ reorders[i].priority = "HIGH"
                          /\ reorders[i].recommended_quantity = 2 * below[i].min_threshold
                     ELSE /\ reorders[i].type = R_STANDARD_REORDER
                          /\ reorders[i].priority = "MEDIUM"
                          /\ reorders[i].recommended_quantity.num =
                                 3 * below[i].min_threshold
                          /\ reorders[i].recommended_quantity.den = 2
                  /\ (below[i].current_stock = 10 /\ below[i].min_threshold = 50) =>
                        /\ reorders[i].recommended_quantity = 100
                        /\ \E j \in 1..Len(state.bottlenecks) :
                              /\ state.bottlenecks[j].type = T_INVENTORY_SHORTAGE
                              /\ state.bottlenecks[j].severity = "HIGH"
                              /\ state.bottlenecks[j].product_id = below[i].product_id
                              /\ state.bottlenecks[j].current_stock = 10

C14_Witness ==
    /\ state.status = "INVENTORY_OPTIMIZED"
    /\ Len(state.data.inventory) = 2
    /\ state.data.inventory[1].current_stock = 10
    /\ state.data.inventory[2].current_stock = 25
    /\ \E i, j \in 1..Len(state.recommendations) :
          /\ state.recommendations[i].type = R_EMERGENCY_REORDER
          /\ state.recommendations[i].recommended_quantity = 100
          /\ state.recommendations[j].type = R_STANDARD_REORDER
          /\ state.recommendations[j].current_stock = 25

\* the rows of a shipments table that are overdue at time t
OverdueRows(shipments, t) ==
    SelectSeq(shipments, LAMBDA s : s.estimated_arrival < t /\ s.status # "DELIVERED")

\* C15: bottleneck detection yields one DELAYED_SHIPMENT bottleneck per shipment
\* with estimated_arrival < now and status other than DELIVERED, HIGH exactly
\* when it is more than 3 whole days overdue and MEDIUM otherwise; the Logistics
\* agent emits one EXPEDITE_DELAYED_SHIPMENT recommendation (HIGH, action
\* CONTACT_CARRIER) per shipment overdue by the same test, and every shipment
\* with a DELAYED_SHIPMENT bottleneck has one.
C15_OverdueFlaggedAndExpedited ==
    [][ /\ (state.status = "DATA_LOADED" /\ state'.status = "BOTTLENECKS_DETECTED") =>
              LET overdue == OverdueRows(state.data.shipments, now)
                  found == SelectSeq(state'.bottlenecks, LAMBDA b :
                               b.type = T_DELAYED_SHIPMENT)
              IN  /\ Len(found) = Len(overdue)
                  /\ \A i \in 1..Len(overdue) :
                        /\ found[i].shipment_id = overdue[i].shipment_id
                        /\ found[i].severity \in {"HIGH", "MEDIUM"}
                        /\ found[i].severity = "HIGH" <=>
                               now - overdue[i].estimated_arrival >= 4 * Day
        /\ (state.status = "INVENTORY_OPTIMIZED" /\
            state'.status = "LOGISTICS_OPTIMIZED") =>
              LET overdue == OverdueRows(state.data.shipments, now)
                  added == SubSeq(state'.recommendations,
                                  Len(state.recommendations) + 1,
                                  Len(state'.recommendations))
                  expedite == SelectSeq(added, LAMBDA r : r.type = R_EXPEDITE_SHIPMENT)
              IN  /\ Len(expedite) = Len(overdue)
                  /\ \A i \in 1..Len(overdue) :
                        /\ expedite[i].shipment_id = overdue[i].shipment_id
                        /\ expedite[i].priority = "HIGH"
                        /\ expedite[i].action = "CONTACT_CARRIER"
                  /\ \A j \in 1..Len(state.bottlenecks) :
                        state.bottlenecks[j].type = T_DELAYED_SHIPMENT =>
                           \E i \in 1..Len(expedite) :
                              expedite[i].shipment_id = state.bottlenecks[j].shipment_id
      ]_vars

C15_Witness ==
    /\ state.status = "LOGISTICS_OPTIMIZED"
    /\ \E j \in 1..Len(state.bottlenecks) :
          /\ state.bottlenecks[j].type = T_DELAYED_SHIPMENT
          /\ state.bottlenecks[j].days_overdue = 5
          /\ state.bottlenecks[j].status = "IN_TRANSIT"
          /\ state.bottlenecks[j].severity = "HIGH"
          /\ \E i \in 1..Len(state.recommendations) :
                /\ state.recommendations[i].type = R_EXPEDITE_SHIPMENT
                /\ state.recommendations[i].priority = "HIGH"
                /\ state.recommendations[i].shipment_id = state.bottlenecks[j].shipment_id
    /\ \E j \in 1..Len(state.bottlenecks) :
          /\ state.bottlenecks[j].type = T_DELAYED_SHIPMENT
          /\ state.bottlenecks[j].days_overdue = 3
          /\ state.bottlenecks[j].severity = "MEDIUM"

\* C16: when loading and detection succeed, get_real_time_status reports
\* CRITICAL for more than 3 HIGH bottlenecks, WARNING for 1 to 3 and NORMAL for
\* none; critical_issues holds the first min(5, count) HIGH bottlenecks in
\* detection order and critical_issues_count is the full count.
C16_RealTimeStatus ==
    (call.fn = "get_real_time_status" /\ call.out.overall_status # "ERROR") =>
        LET high == SelectSeq(detector_bottlenecks, LAMBDA b : b.severity = "HIGH")
            h == Len(high)
            out == call.out
        IN  /\ h > 3 => out.overall_status = "CRITICAL"
            /\ h \in 1..3 => out.overall_status = "WARNING"
            /\ h = 0 => out.overall_status = "NORMAL"
            /\ out.critical_issues_count = h
            /\ out.total_bottlenecks = Len(detector_bottlenecks)
            /\ Len(out.critical_issues) <= 5
            /\ Len(out.critical_issues) = IF h < 5 THEN h ELSE 5
            /\ \A i \in 1..Len(out.critical_issues) : out.critical_issues[i] = high[i]

C16_Witness ==
    /\ call.fn = "get_real_time_status"
    /\ call.out.overall_status = "CRITICAL"
    /\ call.out.critical_issues_count = 7
    /\ Len(call.out.critical_issues) = 5
    /\ call.out.total_bottlenecks > 7

\* C17: boundary inputs never make a run fail: when the loaded tables hold an
\* item with min_threshold 0 or a warehouse with capacity 0, no detector and no
\* agent raises, so a step fails only on a fault of its environment.
C17_BoundaryInputsNeverFail ==
    (/\ state.data # EmptyDict
     /\ \/ \E i \in 1..Len(state.data.inventory) :
              state.data.inventory[i].min_threshold = 0
        \/ \E i \in 1..Len(state.data.warehouses) :
              state.data.warehouses[i].capacity = 0)
    => \A k \in 1..Len(raised) : raised[k].err \in Faults

\* C18: on warehouses with the fields warehouse_id, warehouse_name and capacity
\* (capacity positive) detection completes without error and reports one
\* WAREHOUSE_CAPACITY_CONSTRAINT per warehouse whose stored stock exceeds
\* 0.9 of its capacity, HIGH above 0.95 and MEDIUM otherwise, and none for the
\* other warehouses.
C18_CapacityConstraintsReported ==
    (/\ call.fn = "run_full_analysis"
     /\ call.done
     /\ \A i \in 1..Len(call.data.warehouses) :
           /\ DOMAIN call.data.warehouses[i] =
                  {"warehouse_id", "warehouse_name", "capacity"}
           /\ call.data.warehouses[i].capacity > 0)
    => /\ call.out.ok
       /\ LET Stock(w) == WarehouseStock(call.data.inventory, w.warehouse_id)
              full == SelectSeq(call.data.warehouses, LAMBDA w :
                          10 * Stock(w) > 9 * w.capacity)
              found == SelectSeq(call.out.val, LAMBDA b :
                           b.type = T_WAREHOUSE_CAPACITY)
          IN  /\ Len(found) = Len(full)
              /\ \A i \in 1..Len(full) :
                    /\ found[i].warehouse_id = full[i].warehouse_id
                    /\ found[i].severity =
                           IF 100 * Stock(full[i]) > 95 * full[i].capacity
                           THEN "HIGH" ELSE "MEDIUM"

\* the number of a decision id DEC_nnn
DecNumber(d) == 100 * d.decision_id[2] + 10 * d.decision_id[3] + d.decision_id[4]

\* C19: make_decisions appends one CRITICAL_BOTTLENECK_RESOLUTION decision
\* (priority CRITICAL, status URGENT) per HIGH bottleneck and none for the
\* others, in bottleneck order and after every decision derived from a
\* recommendation, so that each has a larger decision_id than every APPROVED
\* decision; it is emitted also when such a decision covers the same product.
C19_CriticalDecisionsLast ==
    (call.fn = "make_decisions" /\ call.done) =>
        LET high == SelectSeq(call.bottlenecks, LAMBDA b : b.severity = "HIGH")
            critical == SelectSeq(call.out, LAMBDA d :
                            d.type = "CRITICAL_BOTTLENECK_RESOLUTION")
        IN  /\ Len(critical) = Len(high)
            /\ \A i \in 1..Len(high) :
                  /\ critical[i].details = high[i]
                  /\ critical[i].bottleneck_id = high[i].id
                  /\ critical[i].priority = "CRITICAL"
                  /\ critical[i].status = "URGENT"
            /\ \A i, j \in 1..Len(call.out) :
                  (call.out[i].status = "APPROVED" /\ call.out[j].priority = "CRITICAL")
                     => (i < j /\ DecNumber(call.out[i]) < DecNumber(call.out[j]))
            /\ \A i \in 1..Len(call.out) :
                  call.out[i].priority = "CRITICAL" <=>
                     call.out[i].type = "CRITICAL_BOTTLENECK_RESOLUTION"

C19_Witness ==
    /\ call.fn = "make_decisions"
    /\ call.done
    /\ Len(call.bottlenecks) = 2
    /\ call.bottlenecks[1].severity = "MEDIUM"
    /\ call.bottlenecks[2].severity = "HIGH"
    /\ \E i, j \in 1..Len(call.out) :
          /\ call.out[i].type = "INVENTORY_ACTION"
          /\ call.out[i].product_id = call.bottlenecks[2].product_id
          /\ call.out[j].type = "CRITICAL_BOTTLENECK_RESOLUTION"
          /\ call.out[j].details = call.bottlenecks[2]
    /\ Len(SelectSeq(call.out, LAMBDA d : d.priority = "CRITICAL")) = 1

\* how many elements of a sequence satisfy a test
CountOf(s, Test(_)) == Cardinality({i \in 1..Len(s) : Test(s[i])})

\* C20: every HIGH or MEDIUM recommendation whose type contains LOGISTICS or
\* SHIPMENT (and neither REORDER nor INVENTORY) gives exactly one
\* LOGISTICS_ACTION decision, without deduplication, and every HIGH or MEDIUM
\* recommendation whose type contains none of the four words gives exactly one
\* GENERAL_ACTION decision; each such decision is APPROVED and has the
\* priority of its recommendation.
C20_OneDecisionPerRecommendation ==
    (call.fn = "make_decisions" /\ call.done) =>
        LET Inv(r) == Contains(r.type, "REORDER") \/ Contains(r.type, "INVENTORY")
            Log(r) == Contains(r.type, "LOGISTICS") \/ Contains(r.type, "SHIPMENT")
            Live(r) == r.priority \in {"HIGH", "MEDIUM"}
            recs == call.recommendations
        IN  /\ \A k \in 1..Len(recs) :
                  (Live(recs[k]) /\ ~Inv(recs[k])) =>
                      CountOf(call.out, LAMBDA d :
                          /\ d.type = IF Log(recs[k]) THEN "LOGISTICS_ACTION"
                                                      ELSE "GENERAL_ACTION"
                          /\ d.details = recs[k]
                          /\ d.action = recs[k].type
                          /\ d.priority = recs[k].priority
                          /\ d.status = "APPROVED")
                      = CountOf(recs, LAMBDA r : r = recs[k])
            /\ CountOf(call.out, LAMBDA d : d.type = "LOGISTICS_ACTION")
                  = CountOf(recs, LAMBDA r : Live(r) /\ ~Inv(r) /\ Log(r))
            /\ CountOf(call.out, LAMBDA d : d.type = "GENERAL_ACTION")
                  = CountOf(recs, LAMBDA r : Live(r) /\ ~Inv(r) /\ ~Log(r))

C20_Witness ==
    /\ call.fn = "make_decisions"
    /\ call.done
    /\ Len(call.recommendations) = 3
    /\ call.recommendations[1].type = R_OPTIMIZE_CARRIER
    /\ call.recommendations[2] = call.recommendations[3]
    /\ call.recommendations[2].type = R_EXPEDITE_SHIPMENT
    /\ Len(call.out) = 3
    /\ call.out[1].type = "LOGISTICS_ACTION"
    /\ call.out[2].type = "LOGISTICS_ACTION"
    /\ call.out[3].type = "GENERAL_ACTION"
    /\ call.out[3].priority = "MEDIUM"

\* the place of an agent in the order the workflow runs the agents
AgentRank(agent) ==
    CASE agent = "DemandMonitor" -> 1
      [] agent = "InventoryManager" -> 2
      [] agent = "LogisticsOptimizer" -> 3

\* C21: once the three agents have run, every bottleneck has exactly one HIGH
\* ADDRESS_DEMAND_BOTTLENECK recommendation if its type contains DEMAND and
\* none otherwise, exactly one HIGH RESOLVE_INVENTORY_BOTTLENECK if its type
\* contains INVENTORY and none otherwise, exactly one HIGH
\* RESOLVE_LOGISTICS_BOTTLENECK if its type contains SHIPMENT or DELAYED and
\* none otherwise; in state.recommendations the Demand agent's entries precede
\* the Inventory agent's, which precede the Logistics agent's.
C21_FollowUpPerMatchingBottleneck ==
    state.status \in {"LOGISTICS_OPTIMIZED", "DECISIONS_MADE", "COMPLETED"} =>
        LET recs == state.recommendations
            FollowUps(type, b) ==
                {i \in 1..Len(recs) : /\ recs[i].type = type
                                      /\ recs[i].bottleneck_id = b.id}
            Expect(type, b, matches) ==
                /\ Cardinality(FollowUps(type, b)) = IF matches THEN 1 ELSE 0
                /\ \A i \in FollowUps(type, b) : recs[i].priority = "HIGH"
        IN  /\ \A k \in 1..Len(state.bottlenecks) :
                  LET b == state.bottlenecks[k]
                  IN  /\ Expect(R_ADDRESS_DEMAND, b, Contains(b.type, "DEMAND"))
                      /\ Expect(R_RESOLVE_INVENTORY, b, Contains(b.type, "INVENTORY"))
                      /\ Expect(R_RESOLVE_LOGISTICS, b,
                                Contains(b.type, "SHIPMENT") \/ Contains(b.type, "DELAYED"))
            /\ \A i \in 1..Len(recs) :
                  recs[i].type \in {R_ADDRESS_DEMAND, R_RESOLVE_INVENTORY,
                                    R_RESOLVE_LOGISTICS} =>
                     \E k \in 1..Len(state.bottlenecks) :
                        state.bottlenecks[k].id = recs[i].bottleneck_id
            /\ \A i, j \in 1..Len(recs) :
                  i < j => AgentRank(recs[i].agent) <= AgentRank(recs[j].agent)

C21_Witness ==
    /\ state.status = "LOGISTICS_OPTIMIZED"
    /\ \E i, j, k \in 1..Len(state.recommendations) :
          /\ i < j /\ j < k
          /\ state.recommendations[i].type = R_ADDRESS_DEMAND
          /\ state.recommendations[j].type = R_RESOLVE_INVENTORY
          /\ state.recommendations[k].type = R_RESOLVE_LOGISTICS
    /\ Len(state.bottlenecks) = 3

\* C22: for every product of the recent (7-day) orders or of the demand
\* history, with recent the sum of its recent order quantities (0 if none) and
\* mean the mean of its history (0 if none), the Demand agent emits one
\* INCREASE_INVENTORY_FOR_DEMAND_SPIKE (HIGH) when recent / (mean + 1) > 1.5,
\* one REDUCE_INVENTORY_FOR_LOW_DEMAND (MEDIUM) when it is < 0.5, neither from
\* 0.5 to 1.5, and never both.
C22_DemandRatioRules ==
    (call.fn = "analyze_demand" /\ call.done) =>
        \A p \in {"P1", "P2"} :
            LET orders == call.data.orders
                rows == call.data.demand_history
                recentIdx == {i \in 1..Len(orders) :
                                 /\ orders[i].product_id = p
                                 /\ orders[i].order_date >= now - 7 * Day}
                rowIdx == {i \in 1..Len(rows) : rows[i].product_id = p}
                recent == SumSeq([i \in 1..Len(orders) |->
                              IF i \in recentIdx THEN orders[i].quantity ELSE 0])
                total == SumSeq([i \in 1..Len(rows) |->
                              IF i \in rowIdx THEN rows[i].demand_quantity ELSE 0])
                n == IF rowIdx = {} THEN 1 ELSE Cardinality(rowIdx)
                known == recentIdx # {} \/ rowIdx # {}
                \* recent / (total / n + 1) against 3/2 and 1/2
                above == 2 * recent * n > 3 * (total + n)
                below == 2 * recent * n < total + n
                Emitted(type) == {i \in 1..Len(call.out) :
                                     /\ call.out[i].type = type
                                     /\ call.out[i].product_id = p}
            IN  /\ Cardinality(Emitted(R_INCREASE_FOR_SPIKE)) =
                       IF known /\ above THEN 1 ELSE 0
                /\ Cardinality(Emitted(R_REDUCE_FOR_LOW)) =
                       IF known /\ below THEN 1 ELSE 0
                /\ \A i \in Emitted(R_INCREASE_FOR_SPIKE) : call.out[i].priority = "HIGH"
                /\ \A i \in Emitted(R_REDUCE_FOR_LOW) : call.out[i].priority = "MEDIUM"
                /\ Emitted(R_INCREASE_FOR_SPIKE) = {} \/ Emitted(R_REDUCE_FOR_LOW) = {}

\* recent = 3 against a mean of 1 is the ratio 1.5: nothing for P1, while P2,
\* known from the history alone, is told to reduce
C22_Witness ==
    /\ call.fn = "analyze_demand"
    /\ call.done
    /\ now = 0
    /\ Len(call.data.orders) = 1
    /\ call.data.orders[1].quantity = 3
    /\ call.data.orders[1].order_date = 0 - 7 * Day
    /\ Len(call.data.demand_history) = 2
    /\ call.data.demand_history[1].product_id = "P1"
    /\ call.data.demand_history[1].demand_quantity = 1
    /\ call.data.demand_history[2].product_id = "P2"
    /\ Len(call.out) = 1
    /\ call.out[1].type = R_REDUCE_FOR_LOW
    /\ call.out[1].product_id = "P2"

\* C23: within a group of inventory-type recommendations the one kept for a
\* product is the first for that product in the order HIGH first, then MEDIUM;
\* no later recommendation ever replaces the kept one, and the kept one is
\* HIGH whenever a recommendation of that type for that product is HIGH.
C23_FirstRecommendationKept ==
    (call.fn = "make_decisions" /\ call.done) =>
        LET recs == call.recommendations
            ordered == SelectSeq(recs, LAMBDA r : r.priority = "HIGH")
                       \o SelectSeq(recs, LAMBDA r : r.priority = "MEDIUM")
            Same(a, b) == a.type = b.type /\ a.product_id = b.product_id
            Grouped(r) == /\ Contains(r.type, "REORDER") \/ Contains(r.type, "INVENTORY")
                          /\ "product_id" \in DOMAIN r
                          /\ Truthy(r.product_id)
            First(j) == \A i \in 1..(j - 1) : ~Same(ordered[i], ordered[j])
            looped == Prioritized(recs)
        IN  /\ \A j \in 1..Len(ordered) :
                  (Grouped(ordered[j]) /\ First(j)) =>
                     CountOf(call.out, LAMBDA d :
                         d.type = "INVENTORY_ACTION" /\ d.details = ordered[j]) = 1
            /\ CountOf(call.out, LAMBDA d : d.type = "INVENTORY_ACTION")
                  = Cardinality({j \in 1..Len(ordered) : Grouped(ordered[j]) /\ First(j)})
            /\ \A k \in 1..Len(call.out) :
                  call.out[k].type = "INVENTORY_ACTION" =>
                     /\ \E j \in 1..Len(ordered) :
                           Grouped(ordered[j]) /\ call.out[k].details = ordered[j]
                     /\ (\E j \in 1..Len(ordered) :
                            /\ Same(ordered[j], call.out[k].details)
                            /\ ordered[j].priority = "HIGH")
                        => call.out[k].priority = "HIGH"
            \* the test of the replacement branch, at every visit of the loop
            \* to a product that already has an entry
            /\ \A i, j \in 1..Len(looped) :
                  (i < j /\ Grouped(looped[j]) /\ Same(looped[i], looped[j]))
                     => ~Replaces(looped[j], looped[i])

C23_Witness ==
    /\ call.fn = "make_decisions"
    /\ call.done
    /\ Len(call.recommendations) = 3
    /\ call.recommendations[1].type = R_STANDARD_REORDER
    /\ call.recommendations[1].priority = "MEDIUM"
    /\ call.recommendations[2].type = R_STANDARD_REORDER
    /\ call.recommendations[2].priority = "HIGH"
    /\ call.recommendations[3] = call.recommendations[1]
    /\ call.recommendations[1].product_id = call.recommendations[2].product_id
    /\ Len(call.out) = 1
    /\ call.out[1].details = call.recommendations[2]

\* C24: a product with at least 3 observations of non-negative demand is
\* flagged as DEMAND_SPIKE if and only if its most recent observation is
\* greater than the sum of the two before it; a product whose demand is all
\* zero is not flagged.
C24_SpikeIffAboveSumOfTwo ==
    (call.fn = "detect_demand_spikes" /\ call.done) =>
        \A p \in {"P1", "P2"} :
            LET rows == call.demand_history
                idx == RowsOf(rows, p)
                \* how many rows of the product are dated after row i
                Later(i) == Cardinality({j \in idx : rows[j].date > rows[i].date})
                At(k) == rows[CHOOSE i \in idx : Later(i) = k].demand_quantity
                flagged == \E i \in 1..Len(call.out) : call.out[i].product_id = p
            IN  Cardinality(idx) >= 3 =>
                   /\ flagged <=> At(0) > At(1) + At(2)
                   /\ (\A i \in idx : rows[i].demand_quantity = 0) => ~flagged

\* 10, 10, 20 by date: the last equals the sum of the two before, no spike
C24_Witness ==
    /\ call.fn = "detect_demand_spikes"
    /\ call.done
    /\ Len(call.demand_history) = 4
    /\ \A i \in 1..4 : call.demand_history[i].product_id = "P1"
    /\ \E i, j, k, l \in 1..4 :
          /\ call.demand_history[i].date = 1 /\ call.demand_history[i].demand_quantity = 20
          /\ call.demand_history[j].date = 2 /\ call.demand_history[j].demand_quantity = 10
          /\ call.demand_history[k].date = 3 /\ call.demand_history[k].demand_quantity = 10
          /\ call.demand_history[l].date = 4 /\ call.demand_history[l].demand_quantity = 20
    /\ call.demand_history[1].date = 4
    /\ call.out = <<>>

\* C25: in a run that reached its decisions, every DELAYED_SHIPMENT bottleneck
\* (a shipment row overdue at detection, hence at the logistics stage too) has
\* exactly one HIGH RESOLVE_LOGISTICS_BOTTLENECK recommendation, its shipment
\* has one HIGH EXPEDITE_DELAYED_SHIPMENT recommendation per such row, which
\* makes two recommendations and two LOGISTICS_ACTION decisions per row, and
\* the bottleneck has one CRITICAL_BOTTLENECK_RESOLUTION decision exactly when
\* its severity is HIGH.
C25_TwoLogisticsActionsPerOverdueShipment ==
    state.status \in {"DECISIONS_MADE", "COMPLETED"} =>
        \A j \in 1..Len(state.bottlenecks) :
            LET b == state.bottlenecks[j]
                Of(r) == "shipment_id" \in DOMAIN r /\ r.shipment_id = b.shipment_id
                rows == CountOf(state.bottlenecks, LAMBDA x :
                            x.type = T_DELAYED_SHIPMENT /\ Of(x))
            IN  b.type = T_DELAYED_SHIPMENT =>
                  /\ CountOf(state.recommendations, LAMBDA r :
                         /\ r.type = R_RESOLVE_LOGISTICS
                         /\ r.bottleneck_id = b.id
                         /\ r.priority = "HIGH") = 1
                  /\ CountOf(state.recommendations, LAMBDA r :
                         r.type = R_EXPEDITE_SHIPMENT /\ Of(r) /\ r.priority = "HIGH") = rows
                  /\ CountOf(state.recommendations, Of) = 2 * rows
                  /\ CountOf(state.final_decisions, LAMBDA d :
                         d.type = "LOGISTICS_ACTION" /\ Of(d) /\ d.priority = "HIGH")
                       = 2 * rows
                  /\ CountOf(state.final_decisions, LAMBDA d :
                         d.type = "CRITICAL_BOTTLENECK_RESOLUTION" /\ d.details = b)
                       = IF b.severity = "HIGH" THEN 1 ELSE 0
                  /\ CountOf(state.final_decisions, LAMBDA d :
                         Of(d) \/ Of(d.details))
                       = 2 * rows + CountOf(state.bottlenecks, LAMBDA x :
                             x.type = T_DELAYED_SHIPMENT /\ Of(x) /\ x.severity = "HIGH")

\* one shipment 5 days overdue and one 3 days overdue, in a completed run
C25_Witness ==
    /\ state.status = "COMPLETED"
    /\ \E i, j \in 1..Len(state.bottlenecks) :
          /\ state.bottlenecks[i].type = T_DELAYED_SHIPMENT
          /\ state.bottlenecks[i].severity = "HIGH"
          /\ state.bottlenecks[j].type = T_DELAYED_SHIPMENT
          /\ state.bottlenecks[j].severity = "MEDIUM"
          /\ state.bottlenecks[i].shipment_id # state.bottlenecks[j].shipment_id
    /\ CountOf(state.final_decisions, LAMBDA d : d.type = "LOGISTICS_ACTION") >= 4
    /\ CountOf(state.final_decisions, LAMBDA d :
           d.type = "CRITICAL_BOTTLENECK_RESOLUTION") = 1

\* the values of RunState.status in the order the stages assign them, FAILED last
StatusRank(status) ==
    CASE status = "INITIALIZING" -> 0
      [] status = "DATA_LOADED" -> 1
      [] status = "BOTTLENECKS_DETECTED" -> 2
      [] status = "DEMAND_ANALYZED" -> 3
      [] status = "INVENTORY_OPTIMIZED" -> 4
      [] status = "LOGISTICS_OPTIMIZED" -> 5
      [] status = "DECISIONS_MADE" -> 6
      [] status = "COMPLETED" -> 7
      [] status = "FAILED" -> 8

\* C26: within a run, stage k leaves RunState.status at the k-th value of
\* DATA_LOADED, BOTTLENECKS_DETECTED, DEMAND_ANALYZED, INVENTORY_OPTIMIZED,
\* LOGISTICS_OPTIMIZED, DECISIONS_MADE, COMPLETED or at FAILED; the status
\* never moves backward along that sequence, FAILED is never left and nothing
\* changes the status after COMPLETED.
C26_StatusMovesForward ==
    [][ /\ StatusRank(state.status) <= StatusRank(state'.status)
        /\ state.status \in {"FAILED", "COMPLETED"} => state'.status = state.status
        /\ (pc \in 1..Len(workflow_steps) /\ pc' # pc) =>
              /\ StatusRank(state.status) = pc - 1
              /\ StatusRank(state'.status) \in {pc, StatusRank("FAILED")}
        /\ pc' = Returned => state'.status \in {"FAILED", "COMPLETED"}
      ]_vars

\* a run that failed while its report was written, after six stages succeeded
C26_Witness ==
    /\ pc = Returned
    /\ state.status = "FAILED"
    /\ Len(history) = Len(workflow_steps)
    /\ state.final_decisions # <<>>

\* C27: whatever calls of run_analysis and get_real_time_status came before
\* it on the same orchestrator, a completed run_analysis reports exactly what
\* its own data give: the bottlenecks of that data numbered from BN_001, the
\* recommendations of the three agents on them, the decisions on those
\* numbered from DEC_001, and a summary that counts them.
C27_EachRunStartsEmpty ==
    (pc = Returned /\ state.status = "COMPLETED") =>
        LET rep == state.final_report
            bottlenecks == run_full_analysis(state.data, now).val
            recommendations == analyze_demand(state.data, bottlenecks, now)
                               \o optimize_inventory(state.data, bottlenecks).val
                               \o optimize_logistics(state.data, bottlenecks, now)
            decisions == make_decisions(bottlenecks, recommendations, now)
        IN  /\ rep.bottlenecks.details = bottlenecks
            /\ rep.recommendations = recommendations
            /\ rep.final_decisions = decisions
            /\ \A i \in 1..Len(rep.bottlenecks.details) :
                  rep.bottlenecks.details[i].id = <<"BN">> \o Digits3(i)
            /\ \A i \in 1..Len(rep.final_decisions) :
                  rep.final_decisions[i].decision_id = <<"DEC">> \o Digits3(i)
            /\ rep.bottlenecks.summary.total = Len(bottlenecks)
            /\ rep.summary.total_bottlenecks = Len(bottlenecks)
            /\ rep.summary.total_recommendations = Len(recommendations)
            /\ rep.data_summary = get_data_summary(state.data)

\* a second run completed after a first completed run and a status call, all
\* three on data with bottlenecks
C27_Witness ==
    /\ pc = Returned
    /\ state.status = "COMPLETED"
    /\ now = 1
    /\ Len(sink) = 2
    /\ sink[1].content.final_decisions # <<>>
    /\ state.final_decisions # <<>>
    /\ call.fn = "get_real_time_status"
    /\ call.out.overall_status # "ERROR"
    /\ call.out.total_bottlenecks > 0

\* C28: every report of run_analysis is consistent, also when a
\* get_real_time_status call that loads other data runs between the detect
\* stage and the report stage: bottlenecks.summary.total equals
\* summary.total_bottlenecks and the length of bottlenecks.details, and the
\* HIGH count of bottlenecks.summary.by_severity (0 when absent) equals
\* summary.critical_bottlenecks.
C28_ReportConsistentUnderInterleaving ==
    state.final_report # EmptyDict =>
        LET rep == state.final_report
            by_severity == rep.bottlenecks.summary.by_severity
        IN  /\ rep.summary.total_bottlenecks = Len(rep.bottlenecks.details)
            /\ rep.bottlenecks.summary.total = rep.summary.total_bottlenecks
            /\ (IF "HIGH" \in DOMAIN by_severity THEN by_severity["HIGH"] ELSE 0)
                  = rep.summary.critical_bottlenecks

\* C29: once the Inventory agent has run, for every inventory row with
\* min_threshold > 0 the EMERGENCY_REORDER recommendations of that row are as
\* many as its HIGH INVENTORY_SHORTAGE bottlenecks (one or none), a
\* STANDARD_REORDER exists only with a MEDIUM INVENTORY_SHORTAGE bottleneck,
\* and a row with current_stock = min_threshold has a MEDIUM bottleneck, no
\* reorder recommendation and one RESOLVE_INVENTORY_BOTTLENECK per bottleneck.
C29_DetectionAndInventoryAgentAgree ==
    StatusRank(state.status) \in 4..7 =>
        \A i \in 1..Len(state.data.inventory) :
            LET item == state.data.inventory[i]
                Same(x) == /\ x.product_id = item.product_id
                           /\ x.current_stock = item.current_stock
                           /\ x.min_threshold = item.min_threshold
                rows == CountOf(state.data.inventory, Same)
                Shortage(severity) == CountOf(state.bottlenecks, LAMBDA b :
                    b.type = T_INVENTORY_SHORTAGE /\ Same(b) /\ b.severity = severity)
                Reorder(type) == CountOf(state.recommendations, LAMBDA r :
                    r.type = type /\ Same(r))
            IN  item.min_threshold > 0 =>
                  /\ Reorder(R_EMERGENCY_REORDER) = Shortage("HIGH")
                  /\ Shortage("HIGH") \in {0, rows}
                  /\ Reorder(R_STANDARD_REORDER) <= Shortage("MEDIUM")
                  /\ Shortage("MEDIUM") \in {0, rows}
                  /\ item.current_stock = item.min_threshold =>
                        /\ Shortage("MEDIUM") = rows
                        /\ Reorder(R_EMERGENCY_REORDER) = 0
                        /\ Reorder(R_STANDARD_REORDER) = 0
                        /\ \A j \in 1..Len(state.bottlenecks) :
                              LET b == state.bottlenecks[j]
                              IN  (b.type = T_INVENTORY_SHORTAGE /\ Same(b)) =>
                                     CountOf(state.recommendations, LAMBDA r :
                                         /\ r.type = R_RESOLVE_INVENTORY
                                         /\ r.bottleneck_id = b.id) = 1

\* an item at its threshold next to an item at half its threshold
C29_Witness ==
    /\ state.status = "COMPLETED"
    /\ \E j \in 1..Len(state.bottlenecks) :
          /\ state.bottlenecks[j].type = T_INVENTORY_SHORTAGE
          /\ state.bottlenecks[j].severity = "MEDIUM"
          /\ state.bottlenecks[j].current_stock = state.bottlenecks[j].min_threshold
    /\ \E k \in 1..Len(state.recommendations) :
          /\ state.recommendations[k].type = R_STANDARD_REORDER
          /\ 2 * state.recommendations[k].current_stock =
                state.recommendations[k].min_threshold
    /\ CountOf(state.recommendations, LAMBDA r : r.type = R_RESOLVE_INVENTORY) = 2
    /\ CountOf(state.recommendations, LAMBDA r : r.type = R_STANDARD_REORDER) = 1

\* C30: a bottleneck of type INSUFFICIENT_STOCK_FOR_ORDERS,
\* WAREHOUSE_CAPACITY_CONSTRAINT or SUPPLIER_RELIABILITY_ISSUE gets no
\* follow-up recommendation from any agent; a HIGH one is the subject of one
\* CRITICAL_BOTTLENECK_RESOLUTION decision and of one CRITICAL_BOTTLENECK
\* alert and of no other decision, and a MEDIUM one of no recommendation,
\* decision or alert.
C30_NoFollowUpForOtherTypes ==
    \A j \in 1..Len(state.bottlenecks) :
        LET b == state.bottlenecks[j]
            About(x) == "bottleneck_id" \in DOMAIN x /\ x.bottleneck_id = b.id
            high == IF b.severity = "HIGH" THEN 1 ELSE 0
        IN  b.type \in {T_INSUFFICIENT_STOCK, T_WAREHOUSE_CAPACITY, T_SUPPLIER_ISSUE} =>
              /\ b.severity \in {"HIGH", "MEDIUM"}
              /\ StatusRank(state.status) \in 5..7 =>
                    CountOf(state.recommendations, About) = 0
              /\ StatusRank(state.status) \in 6..7 =>
                    /\ CountOf(state.final_decisions, LAMBDA d :
                           /\ d.type = "CRITICAL_BOTTLENECK_RESOLUTION"
                           /\ d.status = "URGENT"
                           /\ d.details = b) = high
                    /\ CountOf(state.final_decisions, LAMBDA d :
                           About(d) \/ About(d.details)) = high
              /\ state.status = "COMPLETED" =>
                    /\ CountOf(state.final_report.recommendations, About) = 0
                    /\ CountOf(state.final_report.alerts, LAMBDA a :
                           a.message = b.message) =
                       CountOf(state.bottlenecks, LAMBDA x :
                           x.severity = "HIGH" /\ x.message = b.message)
                    /\ \A k \in 1..Len(state.final_report.alerts) :
                           LET a == state.final_report.alerts[k]
                           IN  a.message = b.message =>
                                  /\ a.type = "CRITICAL_BOTTLENECK"
                                  /\ a.action_required = b.recommended_action

\* a supplier with score 80 (HIGH) and one with score 87 (MEDIUM), completed
C30_Witness ==
    /\ state.status = "COMPLETED"
    /\ Len(state.bottlenecks) = 2
    /\ state.bottlenecks[1].type = T_SUPPLIER_ISSUE
    /\ state.bottlenecks[2].type = T_SUPPLIER_ISSUE
    /\ state.bottlenecks[1].severity # state.bottlenecks[2].severity
    /\ state.recommendations = <<>>
    /\ Len(state.final_decisions) = 1
    /\ Len(state.final_report.alerts) = 1

====
